---- MODULE Spec2Model ----
(***************************************************************************)
(* A model of the SuperSave entity store: the engine repositories and      *)
(* schema synchronizers (SQLite, MySQL/MariaDB), the user-migration        *)
(* runner, the HTTP collection layer and the query builder.                *)
(*                                                                         *)
(* The module holds several specifications over one set of variables; a    *)
(* specification leaves the variables of the other subsystems unchanged.   *)
(*   SpecStore      repositories, addEntity and schema synchronisation     *)
(*   SpecMigrations the user-migration runner and its ledger               *)
(*   SpecHttp       collections, the router, its handlers and the requests *)
(*   SpecQuery      the query builder and getByQuery on both engines       *)
(*   SpecRegistry   the registry of repositories of an entity manager      *)
(*   SpecHooks      one request per endpoint with the hooks of a collection*)
(*   SpecRelations  rows that reference rows of another table              *)
(*   SpecPaging     GET /<collection> with limit and offset                *)
(*   SpecPatch      two PATCH requests on one row, interleaved at awaits   *)
(*   SpecRebuild    a table rebuild cut short, then addEntity run again    *)
(*   SpecPool       the MySQL synchronizer step by step on a shared pool   *)
(*   SpecGetWhere   builder calls with getWhere() calls in between         *)
(***************************************************************************)
EXTENDS Integers, Sequences, FiniteSets, TLC

VARIABLES
    engine,       \* "sqlite" | "mysql": the backend of the connection string
    flavor,       \* how the server implements the JSON column type
    db,           \* the physical tables: [main, shadow]
    registered,   \* EntityManager.repositories holds the entity's repository
    def,          \* the EntityDefinition the registered repository is bound to
    migDone,      \* the contents migration has completed for the table
    lastOp,       \* what the last operation was given and what it did
    ledger,       \* the names recorded in _supersave_migrations
    migPos,       \* 0: no runner is active; i: the runner is at migration i
    invoked,      \* per migration, how often its run function was invoked
    completed,    \* per migration, how often its run function returned
    migErr,       \* the last runner invocation ended with an error
    lastMig,      \* what the runner did with the last migration it visited
    colls,        \* CollectionManager: collection name -> its hooks array
    httpReady,    \* SuperSave.collectionHttp is defined
    initializedPrefix, \* SuperSave.initializedPrefix, by its characters
    router,       \* Http.router: the endpoints of the router built last
    handlers,     \* the handlers handed out, each by the endpoints it serves
    tables,       \* collection name -> the rows of its table
    lastReq,      \* the last request: what was asked, what was answered
    qFsf,         \* Query.filterSortFields: what createQuery injected
    qWhere,       \* Query.where: the top-level conditions
    qGroup,       \* Query.currentGroup: the group being filled, if any
    qSort,        \* Query.sortValues
    qLast,        \* the last call on the query and what it did
    repositories, \* EntityManager.repositories: full entity name -> repository
    constructed,  \* how many repositories have been stored in the registry
    lastReg,      \* the last call on the registry and what it returned
    hookCall,     \* the last request served with hooks, and its response
    relTables,    \* the planets table and the moons table, which references it
    relLast,      \* the last repository call on the two tables
    page,         \* the last GET /<collection> with limit and offset, and its data
    patchRows,    \* the rows of the table two PATCH requests work on
    patchReqs,    \* per request: where its handler is, what it read, its body
    interrupted,  \* the rebuild that was cut short: after which step, of which table
    pool,         \* the MySQL pool and the position of sync in its connection scopes
    qTwin         \* the query the same builder calls build without getWhere() between

storeVars == <<engine, flavor, db, registered, def, migDone, lastOp>>

migVars == <<ledger, migPos, invoked, completed, migErr, lastMig>>

httpVars == <<colls, httpReady, initializedPrefix, router, handlers, tables, lastReq>>

queryVars == <<qFsf, qWhere, qGroup, qSort, qLast>>

regVars == <<repositories, constructed, lastReg>>

hookVars == <<hookCall>>

relVars == <<relTables, relLast>>

pageVars == <<page>>

patchVars == <<patchRows, patchReqs>>

rebuildVars == <<interrupted>>

poolVars == <<pool>>

twinVars == <<qTwin>>

vars == <<storeVars, migVars, httpVars, queryVars, regVars, hookVars, relVars, pageVars, patchVars, rebuildVars, poolVars, twinVars>>

\* the parts of the state a subsystem does not touch
StoreOnly == UNCHANGED
    <<migVars, httpVars, queryVars, regVars, hookVars, relVars,
      pageVars, patchVars, rebuildVars, poolVars, twinVars>>
MigrationsOnly == UNCHANGED
    <<storeVars, httpVars, queryVars, regVars, hookVars, relVars,
      pageVars, patchVars, rebuildVars, poolVars, twinVars>>
HttpOnly == UNCHANGED
    <<storeVars, migVars, queryVars, regVars, hookVars, relVars,
      pageVars, patchVars, rebuildVars, poolVars, twinVars>>
QueryOnly == UNCHANGED
    <<storeVars, migVars, httpVars, regVars, hookVars, relVars,
      pageVars, patchVars, rebuildVars, poolVars, twinVars>>
RegistryOnly == UNCHANGED
    <<storeVars, migVars, httpVars, queryVars, hookVars, relVars,
      pageVars, patchVars, rebuildVars, poolVars, twinVars>>
HooksOnly == UNCHANGED
    <<storeVars, migVars, httpVars, queryVars, regVars, relVars,
      pageVars, patchVars, rebuildVars, poolVars, twinVars>>
RelationsOnly == UNCHANGED
    <<storeVars, migVars, httpVars, queryVars, regVars, hookVars,
      pageVars, patchVars, rebuildVars, poolVars, twinVars>>
PagingOnly == UNCHANGED
    <<storeVars, migVars, httpVars, queryVars, regVars, hookVars,
      relVars, patchVars, rebuildVars, poolVars, twinVars>>
PatchOnly == UNCHANGED
    <<storeVars, migVars, httpVars, queryVars, regVars, hookVars,
      relVars, pageVars, rebuildVars, poolVars, twinVars>>
RebuildOnly == UNCHANGED
    <<storeVars, migVars, httpVars, queryVars, regVars, hookVars,
      relVars, pageVars, patchVars, poolVars, twinVars>>
StoreAndRebuildOnly == UNCHANGED
    <<migVars, httpVars, queryVars, regVars, hookVars,
      relVars, pageVars, patchVars, poolVars, twinVars>>
StoreAndPoolOnly == UNCHANGED
    <<migVars, httpVars, queryVars, regVars, hookVars,
      relVars, pageVars, patchVars, rebuildVars, twinVars>>
QueryAndTwinOnly == UNCHANGED
    <<storeVars, migVars, httpVars, regVars, hookVars,
      relVars, pageVars, patchVars, rebuildVars, poolVars>>
PoolOnly == UNCHANGED
    <<storeVars, migVars, httpVars, queryVars, regVars, hookVars,
      relVars, pageVars, patchVars, rebuildVars, twinVars>>
TwinOnly == UNCHANGED
    <<storeVars, migVars, httpVars, queryVars, regVars, hookVars,
      relVars, pageVars, patchVars, rebuildVars, poolVars>>

\* no table with relations
RelIdle ==
    /\ relTables = <<>>
    /\ relLast = <<>>

\* no list requested
PageIdle == page = <<>>

\* no PATCH in flight
PatchIdle ==
    /\ patchRows = <<>>
    /\ patchReqs = <<>>

\* no rebuild cut short
RebuildIdle == interrupted = <<>>

\* no sync followed on the pool
PoolIdle == pool = <<>>

\* no twin query built
TwinIdle == qTwin = <<>>

\* no request served
HookIdle == hookCall = <<>>

\* no entity registered, no repository asked for
RegIdle ==
    /\ repositories = <<>>
    /\ constructed = 0
    /\ lastReg = <<>>

\* no query built
QueryIdle ==
    /\ qFsf = <<>>
    /\ qWhere = <<>>
    /\ qGroup = <<>>
    /\ qSort = <<>>
    /\ qLast = <<>>

\* no collection added, no handler asked for
HttpIdle ==
    /\ colls = <<>>
    /\ httpReady = FALSE
    /\ initializedPrefix = <<>>
    /\ router = {}
    /\ handlers = {}
    /\ tables = <<>>
    /\ lastReq = <<>>

\* the migration runner before any migration is configured
MigIdle ==
    /\ ledger = {}
    /\ migPos = 0
    /\ invoked = <<>>
    /\ completed = <<>>
    /\ migErr = FALSE
    /\ lastMig = <<>>

-----------------------------------------------------------------------------
(* Bounds of the model.                                                    *)

\* the largest number of rows a table holds
MaxRows == 2

\* how often the run function of one migration is invoked at most
MaxInvocations == 2

\* the largest number of filters, groups and sort entries a query holds
MaxQuerySize == 4

-----------------------------------------------------------------------------
(* JSON values and documents.  A value is a tagged record; a document is a *)
(* function from its keys to values.                                       *)

Str(s) == [t |-> "str", v |-> s]
Undefined == [t |-> "undef", v |-> ""]

EmptyDoc == [k \in {} |-> Undefined]

\* a text in a contents column that JSON.parse rejects
BadJson == [k \in {"{"} |-> Undefined]

\* { ...a, ...b }
Spread(a, b) ==
    [k \in (DOMAIN a) \cup (DOMAIN b) |-> IF k \in DOMAIN b THEN b[k] ELSE a[k]]

\* o[k] = v on a copy of o
SetProp(o, k, v) ==
    [x \in (DOMAIN o) \cup {k} |-> IF x = k THEN v ELSE o[x]]

\* delete o[k]
DeleteProp(o, k) == [x \in (DOMAIN o) \ {k} |-> o[x]]

\* JSON.parse(JSON.stringify(o)): keys whose value is undefined are dropped
Stringify(o) == [k \in {x \in DOMAIN o : o[x] # Undefined} |-> o[k]]

\* typeof object.id === 'string'
HasStringId(o) == "id" \in DOMAIN o /\ o["id"].t = "str"

-----------------------------------------------------------------------------
(* The values the model draws its inputs from.                             *)

RowIds == {"a", "b"}          \* ids supplied by callers
GenIds == {"g1"}              \* ids shortUuid.generate() may return
AllIds == RowIds \cup GenIds
Names == {"Earth", "Mars"}
FieldNames == {"name", "distance", "1st"}

\* the characters of a field name
Spelling(f) ==
    IF f = "name" THEN <<"n", "a", "m", "e">>
    ELSE IF f = "distance" THEN <<"d", "i", "s", "t", "a", "n", "c", "e">>
    ELSE IF f = "1st" THEN <<"1", "s", "t">>
    ELSE <<"i", "d">>

Letters == {"a", "c", "d", "e", "i", "m", "n", "s", "t"}
Digits == {"1"}

\* the documents callers hand to create and update
InputDocs ==
    { [k \in {"name"} |-> Str("Mars")], [k \in {"id"} |-> Str("a")] }
    \cup { ("id" :> Str(i)) @@ ("name" :> Str("Earth")) : i \in RowIds }

\* the contents an earlier release may have written into a legacy table
LegacyDocs == { EmptyDoc, [k \in {"name"} |-> Str("Earth")], BadJson }

Templates == { EmptyDoc, [k \in {"name"} |-> Str("Earth")] }

NoFsf == [k \in {} |-> ""]
FsfChoices ==
    { NoFsf,
      ("id" :> "string") @@ ("name" :> "string"),
      ("id" :> "string") @@ ("name" :> "string") @@ ("distance" :> "number"),
      ("id" :> "string") @@ ("1st" :> "boolean") }

\* EntityDefinition: fsfDefined is typeof filterSortFields !== 'undefined'
Definitions ==
    { [template |-> t, fsfDefined |-> d, fsf |-> f] :
        t \in Templates, d \in BOOLEAN, f \in FsfChoices }

ValidDefinition(e) == (~e.fsfDefined) => (e.fsf = NoFsf)

NoDef == [template |-> EmptyDoc, fsfDefined |-> FALSE, fsf |-> NoFsf]

-----------------------------------------------------------------------------
(* Physical tables.                                                        *)

NoCols == [k \in {} |-> [type |-> "", gen |-> FALSE]]
NoRows == [k \in {} |-> EmptyDoc]

\* ctype: the declared type of the contents column; check: a JSON_VALID
\* CHECK constraint on it; cols: the columns besides id and contents;
\* idx: the names of the table's secondary indexes
NoTable ==
    [exists |-> FALSE, ctype |-> "", check |-> FALSE, cols |-> NoCols,
     idx |-> {}, rows |-> NoRows]

IdxName(f) == "idx_" \o f

RowsPut(rows, id, c) ==
    [x \in (DOMAIN rows) \cup {id} |-> IF x = id THEN c ELSE rows[x]]

RowsDel(rows, id) == [x \in (DOMAIN rows) \ {id} |-> rows[x]]

\* INSERT INTO t (id, contents): the primary key rejects a second row of an id
InsertRow(t, id, contents) ==
    IF id \in DOMAIN t.rows
    THEN [ok |-> FALSE, t |-> t]
    ELSE [ok |-> TRUE, t |-> [t EXCEPT !.rows = RowsPut(t.rows, id, contents)]]

-----------------------------------------------------------------------------
(* Base repository: relation projection and expansion, row hydration.      *)
(* The definitions of this model declare no relations.                     *)

\* a copy of the entity with each relation value replaced by {id}
simplifyRelations(e, o) == o

\* the entity with each relation reference replaced by the referenced entity
fillInRelations(e, o) == o

\* { ...template, ...fillInRelations(JSON.parse(contents)), id: row.id }
transformQueryResultRow(e, id, contents) ==
    SetProp(Spread(e.template, fillInRelations(e, contents)), "id", Str(id))

\* JSON.parse(row.contents) returns for every row of the table
Parses(t) == \A i \in DOMAIN t.rows : t.rows[i] # BadJson

\* SELECT id, contents FROM t, each row hydrated; keyed by the row's id
getAll(e, t) == [i \in DOMAIN t.rows |-> transformQueryResultRow(e, i, t.rows[i])]

\* SELECT ... WHERE id = ? LIMIT 1; null when there is no such row
NoEntity == [k \in {"null"} |-> Undefined]

queryById(e, t, id) ==
    IF id \in DOMAIN t.rows
    THEN transformQueryResultRow(e, id, t.rows[id])
    ELSE NoEntity

-----------------------------------------------------------------------------
(* Engine repositories: create, update, deleteUsingId.                     *)

\* JSON.stringify({ ...template, ...simplifyRelations(object) })
CreateContents(e, o) ==
    Stringify(Spread(e.template, simplifyRelations(e, o)))

\* the id create stores the row under: the caller's, or a generated one
\* a create that always generates the id
CreateIdGenerated(o, gen) == gen

CreateId(o, gen) == IF HasStringId(o) THEN o["id"].v ELSE gen

\* Repository.create (both engines): [ok, t, id]
create(e, t, o, gen) ==
    LET r == InsertRow(t, CreateId(o, gen), CreateContents(e, o))
    IN  [ok |-> r.ok, t |-> r.t, id |-> CreateId(o, gen)]

\* SQLite: simplifiedObject.id = undefined; JSON.stringify(simplifiedObject)
SqliteUpdateContents(e, o) ==
    Stringify(SetProp(simplifyRelations(e, o), "id", Undefined))

\* MySQL: delete simplifiedObject.id; JSON.stringify(simplifiedObject)
MysqlUpdateContents(e, o) ==
    Stringify(DeleteProp(simplifyRelations(e, o), "id"))

UpdateContents(g, e, o) ==
    IF g = "sqlite" THEN SqliteUpdateContents(e, o) ELSE MysqlUpdateContents(e, o)

\* object.id || ''
UpdateId(o) == IF HasStringId(o) THEN o["id"].v ELSE ""

\* Repository.update: UPDATE t SET contents = ? WHERE id = ?
\* an update that lays the new contents over the stored ones
updateMerging(g, e, t, o) ==
    IF UpdateId(o) \in DOMAIN t.rows
    THEN [t EXCEPT !.rows = RowsPut(t.rows, UpdateId(o),
                       Spread(t.rows[UpdateId(o)], UpdateContents(g, e, o)))]
    ELSE t

update(g, e, t, o) ==
    IF UpdateId(o) \in DOMAIN t.rows
    THEN [t EXCEPT !.rows = RowsPut(t.rows, UpdateId(o), UpdateContents(g, e, o))]
    ELSE t

\* Repository.deleteUsingId: DELETE FROM t WHERE id = ?
\* a DELETE without its WHERE clause
deleteEveryRow(t, id) == [t EXCEPT !.rows = NoRows]

deleteUsingId(t, id) == [t EXCEPT !.rows = RowsDel(t.rows, id)]

-----------------------------------------------------------------------------
(* SQLite schema synchronizer.                                             *)

\* filterSortFieldSqliteTypeMap
SqliteTypeOf(ft) ==
    IF ft = "string" THEN "TEXT"
    ELSE IF ft = "number" THEN "INTEGER" ELSE "BOOLEAN"

\* the column an index named idx_<column> is named after
IndexColumn(n) ==
    CHOOSE f \in FieldNames \cup {"id", "contents"} : IdxName(f) = n

\* Object.keys(filterSortFields).filter(name => name !== 'id')
FilterSortFieldNames(e) == (DOMAIN e.fsf) \ {"id"}

\* CREATE TABLE <t>_2 with a generated column per field, then
\* CREATE INDEX IF NOT EXISTS idx_<f> per field: index names are unique in
\* the whole database, so a name some table already uses creates nothing
SqliteShadow(d, e, fields) ==
    [exists |-> TRUE, ctype |-> "JSON", check |-> FALSE,
     cols |-> [f \in fields |-> [type |-> SqliteTypeOf(e.fsf[f]), gen |-> TRUE]],
     idx |-> {IdxName(f) : f \in {x \in fields : IdxName(x) \notin d.main.idx}},
     rows |-> NoRows]

\* for (const element of oldAll) await newRepository.create(element)
RECURSIVE SqliteCopy(_, _, _, _)
SqliteCopy(e, elements, todo, t) ==
    IF todo = {} THEN [ok |-> TRUE, t |-> t]
    ELSE LET i == CHOOSE x \in todo : TRUE
             r == create(e, t, elements[i], "")
         IN  IF r.ok THEN SqliteCopy(e, elements, todo \ {i}, r.t)
             ELSE [ok |-> FALSE, t |-> r.t]

\* DROP TABLE IF EXISTS <t>_2; CREATE TABLE <t>_2; indexes; copy;
\* DROP TABLE <t>; ALTER TABLE <t>_2 RENAME TO <t>
\* a rebuild that drops the table before it copies the rows
SqliteRebuildInPlace(d, e, fields) ==
    IF Parses(d.main)
    THEN [ok |-> TRUE,
          d |-> [main |-> SqliteCopy(e, getAll(e, d.main), DOMAIN d.main.rows,
                                     SqliteShadow(d, e, fields)).t,
                 shadow |-> NoTable]]
    ELSE [ok |-> FALSE, d |-> [main |-> NoTable, shadow |-> NoTable]]

SqliteRebuild(d, e, fields) ==
    LET dropped == [d EXCEPT !.shadow = NoTable]
        shadow == SqliteShadow(dropped, e, fields)
        oldAll == getAll(e, d.main)
        copied == IF Parses(d.main)
                  THEN SqliteCopy(e, oldAll, DOMAIN oldAll, shadow)
                  ELSE [ok |-> FALSE, t |-> shadow]
    IN  IF copied.ok
        THEN [ok |-> TRUE, d |-> [main |-> copied.t, shadow |-> NoTable]]
        ELSE [ok |-> FALSE, d |-> [main |-> d.main, shadow |-> copied.t]]

\* getContentsColumnType: pragma table_info, the type in upper case
SqliteContentsColumnType(t) == t.ctype

\* migrateContentsColumn: [ok, ran, d]
\* a synchronizer that leaves a text contents column as it is
SqliteMigrateNever(d, e) == [ok |-> TRUE, ran |-> FALSE, d |-> d]

SqliteMigrateContentsColumn(d, e) ==
    IF SqliteContentsColumnType(d.main) = "TEXT"
    THEN LET r == SqliteRebuild(d, e,
                      IF e.fsfDefined THEN FilterSortFieldNames(e) ELSE {})
         IN  [ok |-> r.ok, ran |-> TRUE, d |-> r.d]
    ELSE [ok |-> TRUE, ran |-> FALSE, d |-> d]

\* getTableColumns: pragma table_info lists the normal columns only, not
\* the generated ones; every listed column but contents, with its declared
\* type
SqliteTableColumns(t) ==
    ("id" :> "TEXT") @@
        [c \in {x \in DOMAIN t.cols : ~t.cols[x].gen} |-> t.cols[c].type]

\* mapFilterSortFieldsToColumns
SqliteMapFilterSortFieldsToColumns(e) ==
    [f \in DOMAIN e.fsf |-> SqliteTypeOf(e.fsf[f])]

\* getNonGeneratedColumns: the fields with no GENERATED ALWAYS AS column
NonGeneratedColumns(t, fields) ==
    {f \in fields : ~(f \in DOMAIN t.cols /\ t.cols[f].gen)}

SqliteIndexesToAdd(t, fields) == {f \in fields : IdxName(f) \notin t.idx}

SqliteIndexesToRemove(t, fields) ==
    {n \in t.idx : IndexColumn(n) \notin ({"id", "contents"} \cup fields)}

\* DROP INDEX IF EXISTS per index to remove, then CREATE INDEX IF NOT EXISTS
\* idx_<f> ON <t> per index to add
SqliteMaintainIndexes(d, fields) ==
    LET t == d.main
        kept == t.idx \ SqliteIndexesToRemove(t, fields)
        added == {IdxName(f) : f \in {x \in SqliteIndexesToAdd(t, fields) :
                                       IdxName(x) \notin (kept \cup d.shadow.idx)}}
    IN  [d EXCEPT !.main.idx = kept \cup added]

\* sync (default export), the part after migrateContentsColumn returned m:
\* [ok, ran, rebuilt, d]
SqliteSyncColumns(m, e) ==
    LET t == m.d.main
        fields == FilterSortFieldNames(e)
        columnsChanged ==
            SqliteTableColumns(t) # SqliteMapFilterSortFieldsToColumns(e)
        needsColumnMigration == NonGeneratedColumns(t, fields) # {}
    IN  IF ~m.ok THEN [ok |-> FALSE, ran |-> m.ran, rebuilt |-> FALSE, d |-> m.d]
        ELSE IF ~e.fsfDefined
        THEN [ok |-> TRUE, ran |-> m.ran, rebuilt |-> FALSE, d |-> m.d]
        ELSE IF ~columnsChanged /\ ~needsColumnMigration
        THEN [ok |-> TRUE, ran |-> m.ran, rebuilt |-> FALSE,
              d |-> SqliteMaintainIndexes(m.d, fields)]
        ELSE LET r == SqliteRebuild(m.d, e, fields)
             IN  [ok |-> r.ok, ran |-> m.ran, rebuilt |-> TRUE, d |-> r.d]

SqliteSync(d, e) ==
    CHOOSE r \in { SqliteSyncColumns(m, e) :
                      m \in {SqliteMigrateContentsColumn(d, e)} } : TRUE

-----------------------------------------------------------------------------
(* MySQL/MariaDB schema synchronizer.  An index is named after its column. *)

\* filterSortFieldTypeMap
MysqlTypeOf(ft) ==
    IF ft = "string" THEN "varchar(255)"
    ELSE IF ft = "number" THEN "int(11)" ELSE "tinyint(4)"

\* what CREATE TABLE (contents JSON NOT NULL) declares: MySQL has a native
\* json type, MariaDB a longtext with a JSON_VALID check constraint
JsonColumn(g, fl) ==
    IF g = "sqlite" THEN [ctype |-> "JSON", check |-> FALSE]
    ELSE IF fl = "mariadb" THEN [ctype |-> "longtext", check |-> TRUE]
    ELSE [ctype |-> "json", check |-> FALSE]

\* getContentsColumnType: json when COLUMN_TYPE says so, or when a longtext
\* has a JSON_VALID check constraint; a server without CHECK_CONSTRAINTS
\* (the query throws) counts as having none
\* a detection that reads COLUMN_TYPE only
MysqlColumnTypeOnly(t, fl) == t.ctype

MysqlContentsColumnType(t, fl) ==
    IF t.ctype = "json" THEN "json"
    ELSE IF t.ctype = "longtext" /\ fl # "mysql57" /\ t.check THEN "json"
    ELSE t.ctype

\* validateFieldName: /^[A-Za-z_][A-Za-z0-9_]*$/.test(fieldName)
validateFieldName(f) ==
    LET w == Spelling(f)
    IN  /\ Len(w) > 0
        /\ w[1] \in Letters \cup {"_"}
        /\ \A i \in 2..Len(w) : w[i] \in Letters \cup Digits \cup {"_"}

\* createGeneratedColumnExpression per field, which validates the name
\* before any statement is sent
MysqlGeneratedColumns(fields) == \A f \in fields : validateFieldName(f)

MysqlShadow(e, fields, fl) ==
    [exists |-> TRUE, ctype |-> JsonColumn("mysql", fl).ctype,
     check |-> JsonColumn("mysql", fl).check,
     cols |-> [f \in fields |-> [type |-> MysqlTypeOf(e.fsf[f]), gen |-> TRUE]],
     idx |-> fields,
     rows |-> NoRows]

\* const { id, ...elementWithoutId } = element;
\* JSON.stringify({ ...entity.template, ...elementWithoutId })
MysqlCopyContents(e, element) ==
    Stringify(Spread(e.template, DeleteProp(element, "id")))

\* for (const element of oldAll) INSERT INTO <t>_2 (id, contents)
RECURSIVE MysqlCopy(_, _, _, _)
MysqlCopy(e, elements, todo, t) ==
    IF todo = {} THEN [ok |-> TRUE, t |-> t]
    ELSE LET i == CHOOSE x \in todo : TRUE
             r == InsertRow(t, elements[i]["id"].v, MysqlCopyContents(e, elements[i]))
         IN  IF r.ok THEN MysqlCopy(e, elements, todo \ {i}, r.t)
             ELSE [ok |-> FALSE, t |-> r.t]

MysqlRebuild(d, e, fields, fl) ==
    LET shadow == MysqlShadow(e, fields, fl)
        oldAll == getAll(e, d.main)
        copied == IF Parses(d.main)
                  THEN MysqlCopy(e, oldAll, DOMAIN oldAll, shadow)
                  ELSE [ok |-> FALSE, t |-> shadow]
    IN  IF ~MysqlGeneratedColumns(fields) THEN [ok |-> FALSE, d |-> d]
        ELSE IF copied.ok
        THEN [ok |-> TRUE, d |-> [main |-> copied.t, shadow |-> NoTable]]
        ELSE [ok |-> FALSE, d |-> [main |-> d.main, shadow |-> copied.t]]

\* const connection = await getConnectionFromPool(pool);
\* try { ... } finally { connection.release(); }
\* The number of times the connection of the scope is released, the body
\* having returned (ok) or thrown.
\* a scope that releases after its last statement only
ReleaseAfterBody(ok) == IF ok THEN 1 ELSE 0

ReleaseFinally(ok) == 1

\* migrateContentsColumn (MySQL): [ok, ran, d, conns]; conns holds, for each
\* connection the call took from the pool, how often it was released
MysqlMigrateContentsColumn(d, e, fl) ==
    IF MysqlContentsColumnType(d.main, fl) \in {"text", "longtext"}
    THEN LET r == MysqlRebuild(d, e,
                      IF e.fsfDefined THEN FilterSortFieldNames(e) ELSE {}, fl)
         IN  [ok |-> r.ok, ran |-> TRUE, d |-> r.d,
              conns |-> <<ReleaseFinally(r.ok)>>]
    ELSE [ok |-> TRUE, ran |-> FALSE, d |-> d,
          conns |-> <<ReleaseFinally(TRUE)>>]

\* getTableColumns (MySQL): every column but id and contents
MysqlTableColumns(t) == [c \in DOMAIN t.cols |-> t.cols[c].type]

\* mapFilterSortFieldsToColumns (MySQL): delete result.id
MysqlMapFilterSortFieldsToColumns(e) ==
    [f \in FilterSortFieldNames(e) |-> MysqlTypeOf(e.fsf[f])]

MysqlIndexesToAdd(t, fields) == {f \in fields : f \notin t.idx}

MysqlIndexesToRemove(t, fields) ==
    {n \in t.idx : n \notin ({"id", "contents"} \cup fields)}

\* ALTER TABLE DROP INDEX per index to remove, ADD INDEX per index to add
MysqlMaintainIndexes(d, fields) ==
    [d EXCEPT !.main.idx =
        (d.main.idx \ MysqlIndexesToRemove(d.main, fields))
            \cup MysqlIndexesToAdd(d.main, fields)]

\* sync (default export, MySQL), the part after migrateContentsColumn
\* returned m: [ok, ran, rebuilt, d, conns]
MysqlSyncColumns(m, e, fl) ==
    LET t == m.d.main
        fields == FilterSortFieldNames(e)
        columnsChanged ==
            MysqlTableColumns(t) # MysqlMapFilterSortFieldsToColumns(e)
        needsColumnMigration == NonGeneratedColumns(t, fields) # {}
    IN  IF ~m.ok THEN [ok |-> FALSE, ran |-> m.ran, rebuilt |-> FALSE, d |-> m.d,
                           conns |-> m.conns]
        ELSE IF ~e.fsfDefined
        THEN [ok |-> TRUE, ran |-> m.ran, rebuilt |-> FALSE, d |-> m.d,
              conns |-> m.conns]
        ELSE IF ~columnsChanged /\ ~needsColumnMigration
        THEN [ok |-> TRUE, ran |-> m.ran, rebuilt |-> FALSE,
              d |-> MysqlMaintainIndexes(m.d, fields),
              conns |-> m.conns \o <<ReleaseFinally(TRUE)>>]
        ELSE LET r == MysqlRebuild(m.d, e, fields, fl)
             IN  [ok |-> r.ok, ran |-> m.ran, rebuilt |-> TRUE, d |-> r.d,
                  conns |-> m.conns \o <<ReleaseFinally(r.ok)>>]

MysqlSync(d, e, fl) ==
    CHOOSE r \in { MysqlSyncColumns(m, e, fl) :
                      m \in {MysqlMigrateContentsColumn(d, e, fl)} } : TRUE

-----------------------------------------------------------------------------
(* Entity manager.                                                         *)

\* createTable: CREATE TABLE IF NOT EXISTS with the base columns
createTable(d, g, fl) ==
    IF d.main.exists THEN d
    ELSE [d EXCEPT !.main =
            [exists |-> TRUE, ctype |-> JsonColumn(g, fl).ctype,
             check |-> JsonColumn(g, fl).check, cols |-> NoCols, idx |-> {},
             rows |-> NoRows]]

Sync(d, e, g, fl) == IF g = "sqlite" THEN SqliteSync(d, e) ELSE MysqlSync(d, e, fl)

\* addEntity of an entity that is not registered yet: create the table if
\* it is missing, run the synchronizer unless skipSync: [ok, ran, rebuilt, d]
\* an addEntity that runs the synchronizer whatever skipSync says
addEntitySyncing(d, e, skipSync, g, fl) == Sync(createTable(d, g, fl), e, g, fl)

addEntity(d, e, skipSync, g, fl) ==
    LET c == createTable(d, g, fl)
    IN  IF skipSync
        THEN [ok |-> TRUE, ran |-> FALSE, rebuilt |-> FALSE, d |-> c]
        ELSE Sync(c, e, g, fl)

-----------------------------------------------------------------------------
(* The store: one table, the instances that register an entity on it and    *)
(* the repository calls they make.                                         *)

Flavors(g) == IF g = "sqlite" THEN {"sqlite"} ELSE {"mysql57", "mysql8", "mariadb"}

\* the contents column of a table written by a version that stored text
LegacyType(g) == IF g = "sqlite" THEN "TEXT" ELSE "longtext"

LegacyCols == [k \in {"name"} |-> [type |-> "TEXT", gen |-> FALSE]]

LegacyRowSets ==
    UNION { [ids -> LegacyDocs] : ids \in SUBSET RowIds }

LegacyTables(g) ==
    { [exists |-> TRUE, ctype |-> LegacyType(g), check |-> FALSE,
       cols |-> c, idx |-> {}, rows |-> r] :
          c \in {NoCols, LegacyCols}, r \in LegacyRowSets }

NoOp ==
    [op |-> "init", ok |-> TRUE, ran |-> FALSE, rebuilt |-> FALSE,
     migBefore |-> FALSE, wasText |-> FALSE, skip |-> FALSE, invalid |-> FALSE,
     pre |-> NoRows, preAll |-> NoRows,
     obj |-> EmptyDoc, id |-> "", conns |-> <<>>]

\* a connection on which no entity has been added
StoreIdle ==
    /\ flavor = engine
    /\ db = [main |-> NoTable, shadow |-> NoTable]
    /\ registered = FALSE
    /\ def = NoDef
    /\ migDone = FALSE
    /\ lastOp = NoOp

IsText(d, g, fl) ==
    /\ d.main.exists
    /\ IF g = "sqlite" THEN SqliteContentsColumnType(d.main) = "TEXT"
       ELSE MysqlContentsColumnType(d.main, fl) \in {"text", "longtext"}

StoreInit ==
    /\ engine \in {"sqlite", "mysql"}
    /\ TwinIdle
    /\ PoolIdle
    /\ RebuildIdle
    /\ PatchIdle
    /\ PageIdle
    /\ RelIdle
    /\ flavor \in Flavors(engine)
    /\ db \in { [main |-> m, shadow |-> NoTable] :
                   m \in {NoTable} \cup LegacyTables(engine) }
    /\ registered = FALSE
    /\ def = NoDef
    /\ migDone = FALSE
    /\ lastOp = NoOp
    /\ MigIdle
    /\ HttpIdle
    /\ QueryIdle
    /\ RegIdle
    /\ HookIdle

\* some filterSortField name of e fails the identifier pattern
HasInvalidName(e) ==
    \E f \in FilterSortFieldNames(e) :
        LET w == Spelling(f)
        IN  \/ w[1] \in Digits
            \/ \E i \in 1..Len(w) : w[i] \notin Letters \cup Digits \cup {"_"}

\* superSave.addEntity(e, {skipSync}) on an instance that has not added it
AddEntity(e, skipSync) ==
    /\ ~registered
    /\ ValidDefinition(e)
    /\ \E r \in {addEntity(db, e, skipSync, engine, flavor)} :
           /\ db' = r.d
           /\ registered' = r.ok
           /\ def' = IF r.ok THEN e ELSE def
           /\ migDone' = (migDone \/ (r.ok /\ r.ran))
           /\ lastOp' = [NoOp EXCEPT !.op = "addEntity", !.ok = r.ok,
                            !.ran = r.ran, !.rebuilt = r.rebuilt,
                            !.migBefore = migDone, !.skip = skipSync,
                            !.wasText = IsText(db, engine, flavor),
                            !.invalid = HasInvalidName(e),
                            !.pre = db.main.rows,
                            !.preAll = getAll(e, db.main),
                            !.conns = IF engine = "mysql" /\ ~skipSync
                                      THEN r.conns ELSE <<>>]
    /\ UNCHANGED <<engine, flavor>>
    /\ StoreOnly

\* re-adding the entity on the same instance returns the cached repository
AddEntityCached ==
    /\ registered
    /\ lastOp' = [NoOp EXCEPT !.op = "addEntityCached", !.migBefore = migDone,
                     !.pre = db.main.rows, !.preAll = getAll(def, db.main)]
    /\ UNCHANGED <<engine, flavor, db, registered, def, migDone>>
    /\ StoreOnly

\* repository.create(o); gen is the id short-uuid would generate
Create(o, gen) ==
    /\ registered
    /\ gen \notin DOMAIN db.main.rows
    /\ Cardinality(DOMAIN db.main.rows) < MaxRows
    /\ \E r \in {create(def, db.main, o, gen)} :
           /\ db' = [db EXCEPT !.main = r.t]
           /\ lastOp' = [NoOp EXCEPT !.op = "create", !.ok = r.ok,
                            !.migBefore = migDone, !.pre = db.main.rows,
                            !.preAll = getAll(def, db.main),
                            !.obj = o, !.id = r.id]
    /\ UNCHANGED <<engine, flavor, registered, def, migDone>>
    /\ StoreOnly

\* repository.update(o)
Update(o) ==
    /\ registered
    /\ db' = [db EXCEPT !.main = update(engine, def, db.main, o)]
    /\ lastOp' = [NoOp EXCEPT !.op = "update", !.migBefore = migDone,
                     !.pre = db.main.rows, !.preAll = getAll(def, db.main),
                     !.obj = o, !.id = UpdateId(o)]
    /\ UNCHANGED <<engine, flavor, registered, def, migDone>>
    /\ StoreOnly

\* repository.deleteUsingId(id)
Delete(id) ==
    /\ registered
    /\ db' = [db EXCEPT !.main = deleteUsingId(db.main, id)]
    /\ lastOp' = [NoOp EXCEPT !.op = "delete", !.migBefore = migDone,
                     !.pre = db.main.rows, !.preAll = getAll(def, db.main),
                     !.id = id]
    /\ UNCHANGED <<engine, flavor, registered, def, migDone>>
    /\ StoreOnly

\* the process ends; a new SuperSave instance connects to the same database
Reconnect ==
    /\ registered
    /\ registered' = FALSE
    /\ def' = NoDef
    /\ lastOp' = [NoOp EXCEPT !.op = "reconnect", !.migBefore = migDone,
                     !.pre = db.main.rows]
    /\ UNCHANGED <<engine, flavor, db, migDone>>
    /\ StoreOnly

StoreNext ==
    \/ \E e \in Definitions, skipSync \in BOOLEAN : AddEntity(e, skipSync)
    \/ AddEntityCached
    \/ \E o \in InputDocs, gen \in GenIds : Create(o, gen)
    \/ \E o \in InputDocs : Update(o)
    \/ \E id \in AllIds : Delete(id)
    \/ Reconnect

SpecStore == StoreInit /\ [][StoreNext]_vars

-----------------------------------------------------------------------------
(* Properties of the store.                                                *)

ContentsIsJson ==
    /\ db.main.exists
    /\ ~IsText(db, engine, flavor)
    /\ db.main.ctype = JsonColumn(engine, flavor).ctype
    /\ db.main.check = JsonColumn(engine, flavor).check

\* C1: no row's contents has an id key, whatever create (with or without a
\* caller-supplied id), update or table rebuild has written it.
C1_NoIdKeyInContents ==
    \A i \in DOMAIN db.main.rows : "id" \notin DOMAIN db.main.rows[i]

\* C4: addEntity (synchronizer not skipped, every filterSortField name an
\* identifier) on a table whose contents column
\* is text and whose rows all hold JSON documents leaves the column JSON and
\* getAll returns exactly one entity per
\* pre-existing row, with the same id and field values; a create after the
\* migration inserts its row and returns it.  (A row that is not JSON aborts
\* the migration: that case is C27.)
C4_LegacyTableMigrated ==
    /\ (lastOp.op = "addEntity" /\ lastOp.wasText /\ ~lastOp.skip
            /\ ~lastOp.invalid
            /\ (\A i \in DOMAIN lastOp.pre : lastOp.pre[i] # BadJson)) =>
          /\ lastOp.ok /\ lastOp.ran
          /\ ContentsIsJson
          /\ DOMAIN db.main.rows = DOMAIN lastOp.pre
          /\ getAll(def, db.main) = lastOp.preAll
    /\ (lastOp.op = "create" /\ lastOp.migBefore
            /\ lastOp.id \notin DOMAIN lastOp.pre) =>
          /\ lastOp.ok
          /\ DOMAIN db.main.rows = DOMAIN lastOp.pre \cup {lastOp.id}
          /\ queryById(def, db.main, lastOp.id) =
                SetProp(Spread(def.template, lastOp.obj), "id", Str(lastOp.id))

C4_Witness ==
    /\ lastOp.op = "addEntity" /\ lastOp.wasText /\ ~lastOp.skip
    /\ Cardinality(DOMAIN lastOp.pre) = 2
    /\ \E i \in DOMAIN lastOp.pre : lastOp.pre[i] = EmptyDoc
    /\ def.template # EmptyDoc
    /\ ContentsIsJson

\* C5: once the contents migration has completed, every later addEntity, on
\* the same or a new instance, finds the column JSON, does not migrate again
\* and keeps every row that was present before it.
C5_MigrationRunsOnce ==
    (lastOp.op = "addEntity" /\ lastOp.migBefore) =>
        /\ ~lastOp.wasText
        /\ ~lastOp.ran
        /\ ContentsIsJson
        /\ \A i \in DOMAIN lastOp.pre : i \in DOMAIN db.main.rows

C5_Witness ==
    /\ lastOp.op = "addEntity" /\ lastOp.migBefore /\ ~lastOp.skip
    /\ lastOp.rebuilt
    /\ Cardinality(DOMAIN lastOp.pre) = 2
    /\ ~lastOp.ran

\* C13: deleteUsingId(id) of an id the table does not hold changes nothing;
\* deleting the same id again changes nothing more; rows of other ids stay
\* as they were.
C13_DeleteIsIdempotent ==
    [][ lastOp'.op = "delete" =>
          /\ lastOp'.ok
          /\ (lastOp'.id \notin DOMAIN db.main.rows) => (db' = db)
          /\ deleteUsingId(db'.main, lastOp'.id) = db'.main
          /\ \A i \in (DOMAIN db.main.rows) \ {lastOp'.id} :
                /\ i \in DOMAIN db'.main.rows
                /\ db'.main.rows[i] = db.main.rows[i] ]_vars

C13_Witness ==
    /\ lastOp.op = "delete"
    /\ lastOp.id \notin DOMAIN lastOp.pre
    /\ Cardinality(DOMAIN db.main.rows) = 2

\* C14: after update(o) of a stored row the stored document is o without its
\* id, whatever the row held before; getById returns o over the template
\* defaults, which is x overlaid with the patch when o = {...x, ...patch} for
\* the entity x read before; every other row is as it was.
C14_UpdateReplacesContents ==
    (lastOp.op = "update" /\ lastOp.id \in DOMAIN lastOp.pre) =>
        /\ DOMAIN db.main.rows = DOMAIN lastOp.pre
        /\ db.main.rows[lastOp.id] = DeleteProp(lastOp.obj, "id")
        /\ queryById(def, db.main, lastOp.id) =
              SetProp(Spread(def.template, lastOp.obj), "id", Str(lastOp.id))
        /\ (DOMAIN lastOp.preAll[lastOp.id] \subseteq DOMAIN lastOp.obj) =>
              queryById(def, db.main, lastOp.id) =
                  Spread(lastOp.preAll[lastOp.id], lastOp.obj)
        /\ \A i \in (DOMAIN lastOp.pre) \ {lastOp.id} :
              db.main.rows[i] = lastOp.pre[i]

\* a row holding a name is updated with an object that carries only the id
C14_Witness ==
    /\ lastOp.op = "update" /\ lastOp.id \in DOMAIN lastOp.pre
    /\ "name" \in DOMAIN lastOp.pre[lastOp.id]
    /\ DOMAIN lastOp.obj = {"id"}
    /\ db.main.rows[lastOp.id] = EmptyDoc
    /\ Cardinality(DOMAIN db.main.rows) = 2

\* C15: a successful create(x) stores one new row, under x's id when x has a
\* string id and under a generated id otherwise, and leaves every other row
\* as it was; getById of that id returns x's fields over the template
\* defaults with that id.  A create that fails stores nothing.
C15_CreateThenGetById ==
    /\ (lastOp.op = "create" /\ lastOp.ok) =>
          /\ IF HasStringId(lastOp.obj) THEN lastOp.id = lastOp.obj["id"].v
              ELSE lastOp.id \in GenIds
          /\ lastOp.id \notin DOMAIN lastOp.pre
          /\ DOMAIN db.main.rows = DOMAIN lastOp.pre \cup {lastOp.id}
          /\ \A i \in DOMAIN lastOp.pre : db.main.rows[i] = lastOp.pre[i]
          /\ \A k \in DOMAIN queryById(def, db.main, lastOp.id) :
                queryById(def, db.main, lastOp.id)[k] =
                    IF k = "id" THEN Str(lastOp.id)
                    ELSE IF k \in DOMAIN lastOp.obj THEN lastOp.obj[k]
                    ELSE def.template[k]
          /\ DOMAIN queryById(def, db.main, lastOp.id) =
                {"id"} \cup DOMAIN lastOp.obj \cup DOMAIN def.template
    /\ (lastOp.op = "create" /\ ~lastOp.ok) => db.main.rows = lastOp.pre

\* an object with only an id is created in a table that holds another row,
\* for an entity whose template has a default
C15_Witness ==
    /\ lastOp.op = "create" /\ lastOp.ok
    /\ DOMAIN lastOp.obj = {"id"}
    /\ def.template # EmptyDoc
    /\ Cardinality(DOMAIN lastOp.pre) = 1

\* C22: with skipSync, addEntity leaves the columns of an existing table as
\* they are (none added, removed or retyped, contents included), and a table
\* it creates has the base columns id and contents only.
C22_SkipSyncKeepsColumns ==
    [][ (lastOp'.op = "addEntity" /\ lastOp'.skip) =>
          /\ lastOp'.ok
          /\ db'.main.exists
          /\ IF db.main.exists
             THEN /\ db'.main.cols = db.main.cols
                  /\ db'.main.ctype = db.main.ctype
                  /\ db'.main.check = db.main.check
             ELSE /\ db'.main.cols = NoCols
                  /\ db'.main.ctype = JsonColumn(engine, flavor).ctype ]_vars

C22_Witness ==
    /\ lastOp.op = "addEntity" /\ lastOp.skip /\ lastOp.wasText
    /\ def.fsfDefined /\ "distance" \in DOMAIN def.fsf
    /\ db.main.cols = LegacyCols

\* the table is what the synchronizer makes of the definition e: a JSON
\* contents column, one generated column of the expected type per field
\* other than id, and the indexes of these fields
SyncedTable(t, e) ==
    /\ t.exists
    /\ t.ctype = JsonColumn(engine, flavor).ctype
    /\ t.check = JsonColumn(engine, flavor).check
    /\ t.cols = [f \in DOMAIN e.fsf \ {"id"} |->
                    [type |-> IF engine = "sqlite" THEN SqliteTypeOf(e.fsf[f])
                              ELSE MysqlTypeOf(e.fsf[f]),
                     gen |-> TRUE]]
    /\ t.idx = { IF engine = "sqlite" THEN "idx_" \o f ELSE f :
                    f \in DOMAIN e.fsf \ {"id"} }

\* C24: a sync on a table whose contents column is JSON, whose
\* filterSortField columns are generated columns of the expected types and
\* whose indexes match the definition executes no DDL: the table is not
\* recreated and keeps its indexes.
C24_MatchingTableNoDdl ==
    [][ (/\ lastOp'.op = "addEntity" /\ ~lastOp'.skip /\ registered'
         /\ def'.fsfDefined
         /\ SyncedTable(db.main, def')) =>
            (~lastOp'.rebuilt /\ db' = db) ]_vars

\* C25: after an addEntity that ran the synchronizer, every field of
\* filterSortFields other than id has its index on the table of the entity.
C25_EveryFieldIndexed ==
    (/\ lastOp.op = "addEntity" /\ ~lastOp.skip /\ lastOp.ok /\ registered
     /\ def.fsfDefined) =>
        \A f \in DOMAIN def.fsf \ {"id"} :
            (IF engine = "sqlite" THEN "idx_" \o f ELSE f) \in db.main.idx

\* C26: a table rebuild (contents migration or recreation) leaves every
\* row under its id with the JSON document it had: no row added or lost, no
\* key of a document added, removed or replaced.
C26_RebuildKeepsDocuments ==
    [][ (/\ lastOp'.op = "addEntity" /\ lastOp'.ok
         /\ lastOp'.ran \/ lastOp'.rebuilt) =>
            db'.main.rows = db.main.rows ]_vars

\* C27: when a row of the source cannot be read during a rebuild, addEntity
\* fails, the table is as it was, rows included, and registers nothing; a
\* rebuild that completes leaves no shadow table behind.
C27_FailedRebuildKeepsSource ==
    [][ /\ (lastOp'.op = "addEntity" /\ ~lastOp'.skip /\ db.main.exists
                /\ db.main.ctype \in {"TEXT", "text", "longtext"}
                /\ (\E i \in DOMAIN db.main.rows : db.main.rows[i] = BadJson))
              => (~lastOp'.ok /\ ~registered' /\ db'.main = db.main)
        /\ (lastOp'.op = "addEntity" /\ lastOp'.ok
                /\ (lastOp'.ran \/ lastOp'.rebuilt))
              => ~db'.shadow.exists ]_vars

\* the migration of a legacy table with an unreadable row has failed and
\* has left its shadow table
C27_Witness ==
    /\ lastOp.op = "addEntity" /\ ~lastOp.ok /\ lastOp.ran /\ ~lastOp.invalid
    /\ db.shadow.exists
    /\ DOMAIN db.main.rows = {"a", "b"}
    /\ db.main.rows["a"] = BadJson

\* C28: when the MySQL synchronizer has run, whether it returned (no
\* filterSortFields, nothing changed, index-only change, rebuild) or threw,
\* it took at least one connection from the pool and every connection it
\* took has been released exactly once; it takes two connections whenever
\* the contents migration returned and the entity has filterSortFields.
C28_ConnectionsReleasedOnce ==
    (lastOp.op = "addEntity" /\ engine = "mysql" /\ ~lastOp.skip) =>
        /\ Len(lastOp.conns) \in {1, 2}
        /\ \A i \in 1..Len(lastOp.conns) : lastOp.conns[i] = 1
        /\ (lastOp.ok /\ def.fsfDefined) => Len(lastOp.conns) = 2
        /\ (lastOp.ok /\ ~def.fsfDefined) => Len(lastOp.conns) = 1

\* the synchronizer threw while it held its second connection
C28_Witness ==
    /\ engine = "mysql"
    /\ lastOp.op = "addEntity" /\ ~lastOp.skip /\ ~lastOp.ok
    /\ lastOp.conns = <<1, 1>>

\* C11: addEntity (synchronizer not skipped) with a filterSortField name
\* that fails the identifier pattern fails, and the table that existed, its
\* columns, indexes and rows, and the shadow table are as they were.
C11_InvalidNameFailsBeforeDdl ==
    [][ (lastOp'.op = "addEntity" /\ lastOp'.invalid /\ ~lastOp'.skip
            /\ db.main.exists)
           => (~lastOp'.ok /\ db' = db) ]_vars

-----------------------------------------------------------------------------
(* The user-migration runner.  One runner is active at a time; the ledger  *)
(* outlives the instances.                                                 *)

\* options.migrations: { name, run, engine? }
Migrations ==
    << [name |-> "m1", engine |-> "any"],
       [name |-> "m2", engine |-> "sqlite"],
       [name |-> "m3", engine |-> "mysql"],
       [name |-> "m4", engine |-> "any"] >>

\* a runner that does not look at the engine of a migration
EngineIgnored(m, g) == TRUE

\* skip any whose engine is set and does not match the active engine
EngineMatches(m, g) == m.engine = "any" \/ m.engine = g

\* eligibility that does not consult the ledger
EligibleByEngine(m, g, l) == EngineMatches(m, g)

\* skip any whose name already exists in the bookkeeping table
Eligible(m, g, l) == EngineMatches(m, g) /\ m.name \notin l

\* an insert whatever the outcome of run
RecordAlways(l, name, outcome) == l \cup {name}

\* on success insert the name; on failure do not record
Record(l, name, outcome) == IF outcome = "ok" THEN l \cup {name} ELSE l

\* an iteration from the last declared migration to the first
NextPosReversed(i) == IF i = 0 THEN Len(Migrations) ELSE i - 1

NextPos(i) == IF i < Len(Migrations) THEN i + 1 ELSE 0

NoMig == [idx |-> 0, kind |-> "none", outcome |-> "", recorded |-> FALSE]

MigInit ==
    /\ engine \in {"sqlite", "mysql"}
    /\ TwinIdle
    /\ PoolIdle
    /\ RebuildIdle
    /\ PatchIdle
    /\ PageIdle
    /\ RelIdle
    /\ StoreIdle
    /\ ledger = {}
    /\ migPos = 0
    /\ invoked = [i \in DOMAIN Migrations |-> 0]
    /\ completed = [i \in DOMAIN Migrations |-> 0]
    /\ migErr = FALSE
    /\ lastMig = NoMig
    /\ HttpIdle
    /\ QueryIdle
    /\ RegIdle
    /\ HookIdle

\* SuperSave.create(connection, { migrations }) or runMigrations()
StartRunner ==
    /\ migPos = 0
    /\ migPos' = NextPos(0)
    /\ migErr' = FALSE
    /\ lastMig' = [NoMig EXCEPT !.kind = "start"]
    /\ UNCHANGED <<ledger, invoked, completed>>
    /\ MigrationsOnly

\* SuperSave.create(connection, { migrations, skipMigrations: true })
SkipRunner ==
    /\ migPos = 0
    /\ migErr' = FALSE
    /\ lastMig' = [NoMig EXCEPT !.kind = "skipMigrations"]
    /\ UNCHANGED <<ledger, migPos, invoked, completed>>
    /\ MigrationsOnly

\* the runner passes over a migration of another engine or a recorded one
SkipMigration ==
    /\ migPos # 0
    /\ ~Eligible(Migrations[migPos], engine, ledger)
    /\ lastMig' = [idx |-> migPos, kind |-> "skip", outcome |-> "",
                   recorded |-> Migrations[migPos].name \in ledger]
    /\ migPos' = NextPos(migPos)
    /\ UNCHANGED <<ledger, invoked, completed, migErr>>
    /\ MigrationsOnly

\* the runner invokes run(ctx) of an eligible migration; outcome is what
\* the user's function does
RunMigration(outcome) ==
    /\ migPos # 0
    /\ Eligible(Migrations[migPos], engine, ledger)
    /\ invoked[migPos] < MaxInvocations
    /\ invoked' = [invoked EXCEPT ![migPos] = @ + 1]
    /\ completed' = IF outcome = "ok"
                    THEN [completed EXCEPT ![migPos] = @ + 1] ELSE completed
    /\ ledger' = Record(ledger, Migrations[migPos].name, outcome)
    /\ migPos' = IF outcome = "ok" THEN NextPos(migPos) ELSE 0
    /\ migErr' = (outcome # "ok")
    /\ lastMig' = [idx |-> migPos, kind |-> "run", outcome |-> outcome,
                   recorded |-> Migrations[migPos].name \in ledger]
    /\ MigrationsOnly

MigNext ==
    \/ StartRunner
    \/ SkipRunner
    \/ SkipMigration
    \/ \E outcome \in {"ok", "throw"} : RunMigration(outcome)

SpecMigrations == MigInit /\ [][MigNext]_vars

-----------------------------------------------------------------------------
(* Properties of the migration runner.                                     *)

\* C2 (as stated): across all runner invocations on one ledger, the run
\* function of each migration is invoked at most once in total.
C2_InvokedAtMostOnce ==
    \A i \in DOMAIN invoked : invoked[i] <= 1

\* C2 (amended): across all runner invocations on one ledger, the run
\* function of each migration completes at most once, and a migration whose
\* name is in the ledger is skipped, never invoked.
C2_CompletedAtMostOnce ==
    /\ \A i \in DOMAIN completed : completed[i] <= 1
    /\ lastMig.kind = "run" => ~lastMig.recorded
    /\ \A i \in DOMAIN completed :
          Migrations[i].name \in ledger => completed[i] = 1

C2_Witness ==
    /\ lastMig.kind = "skip" /\ lastMig.recorded
    /\ invoked[lastMig.idx] = 2
    /\ completed[lastMig.idx] = 1

\* C3: after the runner has invoked a migration, its name is in the ledger
\* iff run(ctx) returned; when it threw, the runner has stopped with the
\* error and the name is not recorded, so a later runner invocation does not
\* skip it: only a recorded migration or one of another engine is skipped.
C3_RecordedIffCompleted ==
    /\ lastMig.kind = "run" =>
          /\ (Migrations[lastMig.idx].name \in ledger) <=> (lastMig.outcome = "ok")
          /\ lastMig.outcome = "throw" => (migErr /\ migPos = 0)
          /\ lastMig.outcome = "ok" => ~migErr
    /\ lastMig.kind = "skip" =>
          \/ lastMig.recorded
          \/ ~EngineMatches(Migrations[lastMig.idx], engine)

C3_Witness ==
    /\ lastMig.kind = "run" /\ lastMig.outcome = "throw"
    /\ invoked[lastMig.idx] = 2
    /\ Migrations[lastMig.idx].name \notin ledger
    /\ migErr

\* C20: within one runner invocation the runner moves through the list in
\* declared order, and when it invokes the migration at position j, every
\* migration of the active engine at a position i < j has completed and has
\* its name in the ledger.
C20_DeclaredOrder ==
    [][ /\ (migPos # 0 /\ migPos' # 0) => migPos' > migPos
        /\ lastMig'.kind = "run" =>
              /\ lastMig'.idx = migPos
              /\ \A i \in 1..(migPos - 1) :
                    EngineMatches(Migrations[i], engine) =>
                        /\ Migrations[i].name \in ledger
                        /\ completed[i] >= 1 ]_vars

C20_Witness ==
    /\ engine = "sqlite"
    /\ lastMig.kind = "run" /\ lastMig.idx = 4 /\ lastMig.outcome = "ok"
    /\ \A i \in {1, 2, 4} : invoked[i] = 1 /\ completed[i] = 1
    /\ invoked[3] = 0

\* C21: a migration whose engine is set to another engine than the active
\* one is never invoked, and when the runner passes a migration that is not
\* in the ledger and whose engine is unset or the active one, it invokes it.
C21_EngineFilter ==
    [][ /\ \A i \in DOMAIN Migrations :
              Migrations[i].engine \notin {"any", engine} => invoked'[i] = 0
        /\ (migPos # 0 /\ migPos' # migPos) =>
              ((/\ Migrations[migPos].engine \in {"any", engine}
                /\ Migrations[migPos].name \notin ledger)
                  => (/\ invoked'[migPos] = invoked[migPos] + 1
                      /\ lastMig'.kind = "run"
                      /\ lastMig'.idx = migPos)) ]_vars

C21_Witness ==
    /\ engine = "mysql"
    /\ lastMig.kind = "run" /\ lastMig.idx = 3
    /\ invoked[1] = 1 /\ invoked[2] = 0 /\ invoked[3] = 1
    /\ ledger = {"m1"}

-----------------------------------------------------------------------------
(* The HTTP collection layer.                                              *)

CollNames == {"planet", "moon"}

\* the endpoints buildRouter creates per collection
RouteKinds == {"get", "create", "getById", "updateById", "deleteById"}

\* a Hooks object with the three before-hooks, and one without them
OtherHooks ==
    [get |-> FALSE, getById |-> FALSE, entityTransform |-> FALSE,
     createBefore |-> FALSE, updateBefore |-> FALSE, deleteBefore |-> FALSE]
BeforeHooks ==
    [OtherHooks EXCEPT !.createBefore = TRUE, !.updateBefore = TRUE,
                       !.deleteBefore = TRUE]

\* a Hooks object with the get and getById hooks, and one with entityTransform
ReadHooks == [OtherHooks EXCEPT !.get = TRUE, !.getById = TRUE]
TransformHooks == [OtherHooks EXCEPT !.entityTransform = TRUE]

\* a Hooks object with the getById and the entityTransform hook
ReadTransformHooks ==
    [OtherHooks EXCEPT !.getById = TRUE, !.entityTransform = TRUE]

\* collection.hooks
HookArrays == { <<>>, <<OtherHooks, BeforeHooks>> }

\* what a hook function does when called: return, throw a HookError with a
\* statusCode, or throw a plain Error
HookOutcomes == {"pass", "s401", "s418", "plain"}

\* (error as { statusCode?: number })?.statusCode ?? 500
ErrorCode(o) ==
    IF o = "s400" THEN 400
    ELSE IF o = "s401" THEN 401
    ELSE IF o = "s403" THEN 403
    ELSE IF o = "s404" THEN 404
    ELSE IF o = "s418" THEN 418 ELSE 500

\* (error as Error).message of what a hook throws
ErrorMessage(o) == "thrown " \o o

\* a response status that is the code of the error, whatever it is
StatusAsThrown(code) == code

\* the status the action answers with for a hook error code
StatusOf(code) == IF code \in {400, 401, 403, 404} THEN code ELSE 500

\* the entity addCollection registers: filterSortFields.id = "string"
CollDef == [template |-> EmptyDoc, fsfDefined |-> TRUE, fsf |-> ("id" :> "string")]

Tbl(rows) == [NoTable EXCEPT !.exists = TRUE, !.ctype = "JSON", !.rows = rows]

\* buildRouter: five endpoints per collection of the manager
BuildRouter(cs) == { <<c, k>> : c \in DOMAIN cs, k \in RouteKinds }

\* the overview handler reads the manager when it is called
Overview(cs) == DOMAIN cs

\* the hooks of the array that have the given before-hook and throw
Throwing(hooks, field, outs) ==
    { i \in DOMAIN hooks : hooks[i][field] /\ outs[i] # "pass" }

FirstThrowing(hooks, field, outs) ==
    CHOOSE i \in Throwing(hooks, field, outs) :
        \A j \in Throwing(hooks, field, outs) : i <= j

\* a before-hook loop that ignores what the hooks throw
RunHooksIgnoring(hooks, field, outs) ==
    [threw |-> FALSE, status |-> 0, message |-> "", thrown |-> ""]

\* for (const hooks of collection.hooks || []) if (hooks.<field>) ...
RunHooks(hooks, field, outs) ==
    IF Throwing(hooks, field, outs) = {}
    THEN [threw |-> FALSE, status |-> 0, message |-> "", thrown |-> ""]
    ELSE [threw |-> TRUE,
          status |-> StatusOf(ErrorCode(outs[FirstThrowing(hooks, field, outs)])),
          message |-> ErrorMessage(outs[FirstThrowing(hooks, field, outs)]),
          thrown |-> outs[FirstThrowing(hooks, field, outs)]]

\* what an action answers: the fields of a response and what it did; item
\* is the entity of the body, as the list of the hooks it went through
Response(status, message, rows, repo) ==
    [status |-> status, message |-> message, rows |-> rows, repo |-> repo,
     threw |-> FALSE, thrown |-> "", item |-> <<>>]

\* throw ctx.error(status, { message: error.message }) for what a hook threw
HookError(h, rows, repo) ==
    [status |-> h.status, message |-> h.message, rows |-> rows, repo |-> repo,
     threw |-> TRUE, thrown |-> h.thrown, item |-> <<>>]

\* for (const hooks of collection.hooks || []) if (hooks.<field>)
\*   item = await hooks.<field>(collection, ctx, item): the hook of position
\* i returns what it was given with its mark <<field, i>> added
RECURSIVE Thread(_, _, _, _)
Thread(hooks, field, i, item) ==
    IF i > Len(hooks) THEN item
    ELSE Thread(hooks, field, i + 1,
                IF hooks[i][field] THEN Append(item, <<field, i>>) ELSE item)

\* a transform that walks the hooks from the last to the first
RECURSIVE ThreadBack(_, _, _, _)
ThreadBack(hooks, field, i, item) ==
    IF i < 1 THEN item
    ELSE ThreadBack(hooks, field, i - 1,
                    IF hooks[i][field] THEN Append(item, <<field, i>>) ELSE item)

transformReversed(hooks, item) ==
    ThreadBack(hooks, "entityTransform", Len(hooks), item)

\* transform (actions/utils)
transform(hooks, item) == Thread(hooks, "entityTransform", 1, item)

\* actions.get without query parameters: [status, message, rows, repo, threw,
\* thrown]; the items are transformed one by one, so no item, no transform
getAction(hooks, rows, outs) ==
    LET h == RunHooks(hooks, "get", outs)
        items == getAll(CollDef, Tbl(rows))
        t == RunHooks(hooks, "entityTransform", outs)
    IN  IF h.threw THEN HookError(h, rows, FALSE)
        ELSE IF DOMAIN items # {} /\ t.threw THEN HookError(t, rows, TRUE)
        ELSE Response(200, "", rows, TRUE)

\* actions.getById
getByIdAction(hooks, rows, id, outs) ==
    LET item == queryById(CollDef, Tbl(rows), id)
        h == RunHooks(hooks, "getById", outs)
        t == RunHooks(hooks, "entityTransform", outs)
    IN  IF h.threw THEN HookError(h, rows, TRUE)
        ELSE IF item = NoEntity THEN Response(404, "Not found", rows, TRUE)
        ELSE IF t.threw THEN HookError(t, rows, TRUE)
        ELSE [Response(200, "", rows, TRUE) EXCEPT
                !.item = transform(hooks, Thread(hooks, "getById", 1, <<>>))]

\* actions.create: threw: a hook threw, repo: the repository was asked to write
createAction(g, hooks, rows, body, outs, gen) ==
    LET h == RunHooks(hooks, "createBefore", outs)
        r == create(CollDef, Tbl(rows), body, gen)
        t == RunHooks(hooks, "entityTransform", outs)
    IN  IF h.threw THEN HookError(h, rows, FALSE)
        ELSE IF ~r.ok THEN Response(500, "not stored", rows, TRUE)
        ELSE IF t.threw THEN HookError(t, r.t.rows, TRUE)
        ELSE Response(200, "", r.t.rows, TRUE)

\* actions.updateById
updateByIdAction(g, hooks, rows, id, body, outs) ==
    LET item == queryById(CollDef, Tbl(rows), id)
        updatedEntity == Spread(item, body)
        h == RunHooks(hooks, "updateBefore", outs)
        t == RunHooks(hooks, "entityTransform", outs)
    IN  IF item = NoEntity THEN Response(404, "Not found", rows, FALSE)
        ELSE IF h.threw THEN HookError(h, rows, FALSE)
        ELSE IF t.threw
        THEN HookError(t, update(g, CollDef, Tbl(rows), updatedEntity).rows, TRUE)
        ELSE Response(200, "", update(g, CollDef, Tbl(rows), updatedEntity).rows,
                      TRUE)

\* actions.deleteById
deleteByIdAction(g, hooks, rows, id, outs) ==
    LET deleteHooks == { i \in DOMAIN hooks : hooks[i].deleteBefore }
        item == queryById(CollDef, Tbl(rows), id)
        h == RunHooks(hooks, "deleteBefore", outs)
    IN  IF deleteHooks # {} /\ item = NoEntity
        THEN Response(404, "Not found", rows, FALSE)
        ELSE IF deleteHooks # {} /\ h.threw THEN HookError(h, rows, FALSE)
        ELSE Response(204, "", deleteUsingId(Tbl(rows), id).rows, TRUE)

\* request bodies and the ids requests name
PostBodies ==
    { [k \in {"name"} |-> Str("Earth")],
      ("id" :> Str("a")) @@ ("name" :> Str("Earth")) }

PatchBodies ==
    { [k \in {"name"} |-> Str("Mars")],
      ("id" :> Str("g1")) @@ ("name" :> Str("Mars")) }

HttpIds == {"a", "g1"}

\* what the hooks of one request do: all return, or one of them throws
HookRuns(hooks) ==
    { [i \in DOMAIN hooks |-> "pass"] }
    \cup { [i \in DOMAIN hooks |-> IF i = t THEN o ELSE "pass"] :
              t \in { i \in DOMAIN hooks : hooks[i] # OtherHooks },
              o \in HookOutcomes \ {"pass"} }

HooksOf(c) == IF c \in DOMAIN colls THEN colls[c] ELSE <<>>

RowsOf(c) == IF c \in DOMAIN tables THEN tables[c] ELSE NoRows

NoReq ==
    [method |-> "none", coll |-> "", served |-> FALSE, status |-> 0,
     asked |-> FALSE, threw |-> FALSE, repo |-> FALSE, listed |-> {},
     prefix |-> <<>>, id |-> ""]

\* the prefixes handed to getHandler and getNodeHandler: "/" (the default),
\* "", "/v1" and "/v1/"
Prefixes == { <<"/">>, <<>>, <<"/", "v", "1">>, <<"/", "v", "1", "/">> }

\* initializedPrefix before the HTTP layer exists
NoPrefix == <<"undefined">>

\* a prefix taken as it is given
keepPrefix(prefix) == prefix

\* prefix.charAt(prefix.length - 1) === "/" ? prefix.substring(0,
\* prefix.length - 1) : prefix
normalizePrefix(prefix) ==
    IF Len(prefix) > 0 /\ prefix[Len(prefix)] = "/"
    THEN SubSeq(prefix, 1, Len(prefix) - 1)
    ELSE prefix

HttpInit ==
    /\ engine = "sqlite"
    /\ TwinIdle
    /\ PoolIdle
    /\ RebuildIdle
    /\ PatchIdle
    /\ PageIdle
    /\ RelIdle
    /\ StoreIdle
    /\ MigIdle
    /\ colls = <<>>
    /\ httpReady = FALSE
    /\ initializedPrefix = NoPrefix
    /\ router = {}
    /\ handlers = {}
    /\ tables = <<>>
    /\ lastReq = NoReq
    /\ QueryIdle
    /\ RegIdle
    /\ HookIdle

\* SuperSave.addCollection: addEntity, manager.addCollection and, when the
\* HTTP layer exists, Http.register, which rebuilds the router
AddCollection(c, hooks) ==
    /\ c \notin DOMAIN colls
    /\ colls' = (c :> hooks) @@ colls
    /\ tables' = (c :> NoRows) @@ tables
    /\ router' = IF httpReady THEN BuildRouter(colls') ELSE router
    /\ lastReq' = [NoReq EXCEPT !.method = "addCollection", !.coll = c]
    /\ UNCHANGED <<httpReady, initializedPrefix, handlers>>
    /\ HttpOnly

\* SuperSave.getHandler / getNodeHandler: ensureHttpInitialized, then the
\* handler of the router that exists now
GetHandler(prefix) ==
    /\ IF ~httpReady
       THEN /\ httpReady' = TRUE
            /\ initializedPrefix' = normalizePrefix(prefix)
            /\ router' = BuildRouter(colls)
            /\ handlers' = handlers \cup {router'}
            /\ lastReq' = [NoReq EXCEPT !.method = "getHandler",
                              !.prefix = prefix]
       ELSE IF initializedPrefix # normalizePrefix(prefix)
       THEN /\ lastReq' = [NoReq EXCEPT !.method = "getHandler",
                              !.prefix = prefix, !.threw = TRUE]
            /\ UNCHANGED <<httpReady, initializedPrefix, router, handlers>>
       ELSE /\ handlers' = handlers \cup {router}
            /\ lastReq' = [NoReq EXCEPT !.method = "getHandler",
                              !.prefix = prefix]
            /\ UNCHANGED <<httpReady, initializedPrefix, router>>
    /\ UNCHANGED <<colls, tables>>
    /\ HttpOnly

\* what a handler answers when none of its endpoints matches
NotFound(h, method, c) ==
    /\ lastReq' = [NoReq EXCEPT !.method = method, !.coll = c, !.status = 404]
    /\ UNCHANGED <<colls, httpReady, initializedPrefix, router, handlers, tables>>

\* asked: one of the request's before-hooks throws when it is called
Answer(h, method, c, id, r, asked) ==
    /\ tables' = [tables EXCEPT ![c] = r.rows]
    /\ lastReq' = [NoReq EXCEPT !.method = method, !.coll = c, !.id = id,
                      !.served = TRUE, !.status = r.status, !.asked = asked,
                      !.threw = r.threw, !.repo = r.repo]
    /\ UNCHANGED <<colls, httpReady, initializedPrefix, router, handlers>>

\* GET <prefix>/ through handler h
GetOverview(h) ==
    /\ h \in handlers
    /\ lastReq' = [NoReq EXCEPT !.method = "overview", !.served = TRUE, !.status = 200,
                      !.listed = Overview(colls)]
    /\ UNCHANGED <<colls, httpReady, initializedPrefix, router, handlers, tables>>
    /\ HttpOnly

\* POST <prefix>/<collection> through handler h
Post(h, c, body, gen) ==
    /\ h \in handlers
    /\ gen \notin DOMAIN RowsOf(c)
    /\ Cardinality(DOMAIN RowsOf(c)) < MaxRows
    /\ IF <<c, "create">> \in h
       THEN \E outs \in HookRuns(HooksOf(c)) :
             \E r \in {createAction(engine, HooksOf(c), RowsOf(c), body, outs, gen)} :
               Answer(h, "POST", c, "", r,
                      Throwing(HooksOf(c), "createBefore", outs) # {})
       ELSE NotFound(h, "POST", c)
    /\ HttpOnly

\* PATCH <prefix>/<collection>/<id> through handler h
Patch(h, c, id, body) ==
    /\ h \in handlers
    /\ IF <<c, "updateById">> \in h
       THEN \E outs \in HookRuns(HooksOf(c)) :
             \E r \in {updateByIdAction(engine, HooksOf(c), RowsOf(c), id, body, outs)} :
               Answer(h, "PATCH", c, id, r,
                      Throwing(HooksOf(c), "updateBefore", outs) # {})
       ELSE NotFound(h, "PATCH", c)
    /\ HttpOnly

\* DELETE <prefix>/<collection>/<id> through handler h
DeleteById(h, c, id) ==
    /\ h \in handlers
    /\ IF <<c, "deleteById">> \in h
       THEN \E outs \in HookRuns(HooksOf(c)) :
             \E r \in {deleteByIdAction(engine, HooksOf(c), RowsOf(c), id, outs)} :
               Answer(h, "DELETE", c, "", r,
                      Throwing(HooksOf(c), "deleteBefore", outs) # {})
       ELSE NotFound(h, "DELETE", c)
    /\ HttpOnly

HttpNext ==
    \/ \E c \in CollNames, hooks \in HookArrays : AddCollection(c, hooks)
    \/ \E prefix \in Prefixes : GetHandler(prefix)
    \/ \E h \in handlers : GetOverview(h)
    \/ \E h \in handlers, c \in CollNames, body \in PostBodies, gen \in GenIds :
          Post(h, c, body, gen)
    \/ \E h \in handlers, c \in CollNames, id \in HttpIds, body \in PatchBodies :
          Patch(h, c, id, body)
    \/ \E h \in handlers, c \in CollNames, id \in HttpIds : DeleteById(h, c, id)

SpecHttp == HttpInit /\ [][HttpNext]_vars

-----------------------------------------------------------------------------
(* Properties of the HTTP layer.                                           *)

\* C6: when a createBefore, updateBefore or deleteBefore hook of a POST,
\* PATCH or DELETE request throws, the repository is not asked to create,
\* update or delete and the rows of every collection stay as they were.
C6_ThrowingHookBlocksWrite ==
    [][ (lastReq'.asked /\ lastReq'.method \in {"POST", "PATCH", "DELETE"})
            => (tables' = tables /\ ~lastReq'.repo /\ lastReq'.status # 200
                   /\ lastReq'.status # 204) ]_vars

C6_Witness ==
    /\ lastReq.method = "DELETE" /\ lastReq.asked /\ lastReq.threw
    /\ lastReq.status = 401
    /\ "a" \in DOMAIN RowsOf(lastReq.coll)

\* C7: every handler handed out by getHandler/getNodeHandler serves the
\* list, create, get-by-id, update and delete routes of every collection
\* registered so far, also of those added after it was handed out, and its
\* overview lists them.
C7_HandlerServesLaterCollections ==
    \A h \in handlers :
        /\ \A c \in DOMAIN colls : \A k \in RouteKinds : <<c, k>> \in h
        /\ Overview(colls) = DOMAIN colls

\* C18: once the HTTP layer exists, getHandler/getNodeHandler with a prefix
\* that differs from the initialised one after one trailing slash is
\* dropped throws and changes neither the prefix, the router nor the
\* handlers handed out; with the same prefix it returns a handler of the
\* router that exists and changes neither prefix nor router.
C18_PrefixIsFixed ==
    [][ (lastReq'.method = "getHandler" /\ httpReady) =>
          LET p == lastReq'.prefix
              n == IF p # <<>> /\ p[Len(p)] = "/"
                   THEN [i \in 1..(Len(p) - 1) |-> p[i]] ELSE p
          IN  /\ httpReady' /\ initializedPrefix' = initializedPrefix
              /\ router' = router
              /\ IF n # initializedPrefix
                 THEN lastReq'.threw /\ handlers' = handlers
                 ELSE ~lastReq'.threw /\ router \in handlers' ]_vars

\* the layer was initialised with /v1 or /v1/, a collection was added, and
\* the default prefix is refused
C18_Witness ==
    /\ lastReq.method = "getHandler" /\ lastReq.threw
    /\ lastReq.prefix = <<"/">>
    /\ initializedPrefix = <<"/", "v", "1">>
    /\ colls # <<>>

\* C19: PATCH /<col>/:id changes no row but the row :id, whatever the body
\* holds, and the table has the same ids afterwards.
C19_PatchChangesOnlyItsRow ==
    [][ (lastReq'.method = "PATCH" /\ lastReq'.served) =>
          \E c \in CollNames :
            /\ c = lastReq'.coll
            /\ DOMAIN tables'[c] = DOMAIN tables[c]
            /\ \A i \in DOMAIN tables[c] :
                  i # lastReq'.id => tables'[c][i] = tables[c][i] ]_vars

\* C12: DELETE /<col>/:id on a served collection answers 204 whether or not
\* the row exists, with or without deleteBefore hooks, when no hook throws.
C12_DeleteAnswers204 ==
    (lastReq.method = "DELETE" /\ lastReq.served /\ ~lastReq.asked) =>
        lastReq.status = 204

-----------------------------------------------------------------------------
(* The query builder.  A condition is a filter or a logical group; both    *)
(* are records of one shape.  A filter's values are a list: one value for  *)
(* a comparison (none for null), the array for IN.                         *)

\* the filterSortFields a query is created with: those of a collection,
\* which addCollection gives an id entry, and those of an entity that was
\* added with addEntity and lists only its own fields
QueryFsfChoices ==
    { ("id" :> "string") @@ ("name" :> "string"),
      [k \in {"name"} |-> "string"] }

\* names every object literal inherits from Object.prototype
ObjectPrototypeKeys == {"constructor", "toString"}

\* typeof filterSortFields[field] !== 'undefined'
\* a builder that knows no id field
FieldDefinedButId(fsf, field) ==
    field # "id" /\ (field \in DOMAIN fsf \/ field \in ObjectPrototypeKeys)

FieldDefined(fsf, field) ==
    field \in DOMAIN fsf \/ field \in ObjectPrototypeKeys

Filter(op, field, values) ==
    [kind |-> "filter", op |-> op, field |-> field, values |-> values,
     conds |-> <<>>]

Group(op, conds) ==
    [kind |-> "group", op |-> op, field |-> "", values |-> <<>>,
     conds |-> conds]

NoGroup == [open |-> FALSE, op |-> "", conds |-> <<>>]

OpenGroup(op) == [open |-> TRUE, op |-> op, conds |-> <<>>]

\* finalizeGroup: [where, group]
finalizeGroup(where, group) ==
    IF group.open
    THEN [where |-> Append(where, Group(group.op, group.conds)),
          group |-> NoGroup]
    ELSE [where |-> where, group |-> group]

\* addFilter: [threw, where, group]
\* an addFilter that leaves a NOT group open after its first predicate
addFilterKeepingNot(where, group, op, field, values) ==
    IF ~FieldDefined(qFsf, field)
    THEN [threw |-> TRUE, where |-> where, group |-> group]
    ELSE IF group.open
    THEN [threw |-> FALSE, where |-> where,
          group |-> [group EXCEPT !.conds = Append(@, Filter(op, field, values))]]
    ELSE [threw |-> FALSE,
          where |-> Append(where, Filter(op, field, values)),
          group |-> group]

addFilter(where, group, op, field, values) ==
    IF ~FieldDefined(qFsf, field)
    THEN [threw |-> TRUE, where |-> where, group |-> group]
    ELSE IF group.open
    THEN LET g == [group EXCEPT !.conds = Append(@, Filter(op, field, values))]
             f == finalizeGroup(where, g)
         IN  IF g.op = "NOT"
             THEN [threw |-> FALSE, where |-> f.where, group |-> f.group]
             ELSE [threw |-> FALSE, where |-> where, group |-> g]
    ELSE [threw |-> FALSE,
          where |-> Append(where, Filter(op, field, values)),
          group |-> group]

\* queries.flatMap((q) => q.getWhere())
RECURSIVE FlatMap(_)
FlatMap(wheres) ==
    IF wheres = <<>> THEN <<>> ELSE Head(wheres) \o FlatMap(Tail(wheres))

\* and(...queries) / or(...queries): [where, group]
logical(where, group, op, wheres) ==
    LET f == finalizeGroup(where, group)
    IN  IF Len(wheres) > 0
        THEN [where |-> Append(f.where, Group(op, FlatMap(wheres))),
              group |-> f.group]
        ELSE [where |-> f.where, group |-> OpenGroup(op)]

\* sort: [threw, sort]
sort(sortValues, field, direction) ==
    IF ~FieldDefined(qFsf, field)
    THEN [threw |-> TRUE, sort |-> sortValues]
    ELSE [threw |-> FALSE,
          sort |-> Append(sortValues, [field |-> field, direction |-> direction])]

RECURSIVE CountFilters(_)
CountFilters(conds) ==
    IF conds = <<>> THEN 0
    ELSE (IF Head(conds).kind = "filter" THEN 1
          ELSE CountFilters(Head(conds).conds))
         + CountFilters(Tail(conds))

RECURSIVE CountGroups(_)
CountGroups(conds) ==
    IF conds = <<>> THEN 0
    ELSE (IF Head(conds).kind = "group"
          THEN 1 + CountGroups(Head(conds).conds) ELSE 0)
         + CountGroups(Tail(conds))

-----------------------------------------------------------------------------
(* Translation of a query to SQL and its evaluation by the engine.  The    *)
(* WHERE clause is kept as a syntax tree; "" of the code is the empty      *)
(* clause.                                                                 *)

Sql(k, op, field, values, args) ==
    [k |-> k, op |-> op, field |-> field, values |-> values, args |-> args]

EmptyClause == Sql("empty", "", "", <<>>, <<>>)

\* a filter as both engines render it: IN (?,..), IS NULL or <field> <op> ?
FilterClause(c) ==
    IF c.op = "IN" THEN Sql("in", "IN", c.field, c.values, <<>>)
    ELSE IF c.op = "=" /\ c.values = <<>>
    THEN Sql("isnull", "", c.field, <<>>, <<>>)
    ELSE Sql("cmp", c.op, c.field, c.values, <<>>)

NonEmptyClause(x) == x # EmptyClause

\* buildWhereClause (SQLite)
RECURSIVE buildWhereClause(_)
buildWhereClause(c) ==
    IF c.kind = "group"
    THEN LET clauses == SelectSeq([i \in 1..Len(c.conds) |->
                             buildWhereClause(c.conds[i])], NonEmptyClause)
         IN  IF Len(clauses) = 0 THEN EmptyClause
             ELSE IF Len(clauses) = 1
             THEN IF c.op = "NOT" THEN Sql("not", "", "", <<>>, clauses)
                  ELSE clauses[1]
             ELSE IF c.op = "NOT"
             THEN Sql("not", "", "", <<>>, <<Sql("join", c.op, "", <<>>, clauses)>>)
             ELSE Sql("join", c.op, "", <<>>, clauses)
    ELSE FilterClause(c)

\* the WHERE clause of getByQuery (SQLite)
SqliteWhere(where) ==
    LET whereClauses == SelectSeq([i \in 1..Len(where) |->
                            buildWhereClause(where[i])], NonEmptyClause)
    IN  IF Len(whereClauses) > 0
        THEN Sql("join", "AND", "", <<>>, whereClauses)
        ELSE EmptyClause

\* the WHERE clause of getByQuery (MySQL): every top-level condition is
\* rendered as a filter; a group has no operator, field or value
MysqlWhere(where) ==
    LET clauses == [i \in 1..Len(where) |->
                       IF where[i].kind = "group"
                       THEN Sql("cmp", "undefined", "undefined", <<>>, <<>>)
                       ELSE FilterClause(where[i])]
    IN  IF Len(clauses) > 0
        THEN Sql("join", "AND", "", <<>>, clauses)
        ELSE EmptyClause

Where(g, where) == IF g = "sqlite" THEN SqliteWhere(where) ELSE MysqlWhere(where)

\* the rows the queries run on; a row without a name has a NULL column
QueryRows ==
    ("a" :> [k \in {"name"} |-> Str("Earth")])
    @@ ("b" :> [k \in {"name"} |-> Str("Mars")])
    @@ ("c" :> EmptyDoc)

\* the value of a column of a row: <<v>>, or <<>> for NULL
Column(id, field) ==
    IF field = "id" THEN <<id>>
    ELSE IF field \in DOMAIN QueryRows[id] THEN <<QueryRows[id][field].v>>
    ELSE <<>>

SeqRange(sq) == { sq[i] : i \in DOMAIN sq }

\* SQL's three-valued connectives; "E" is a statement the engine rejects
And3(vs) ==
    IF "E" \in vs THEN "E" ELSE IF "F" \in vs THEN "F"
    ELSE IF "U" \in vs THEN "U" ELSE "T"

Or3(vs) ==
    IF "E" \in vs THEN "E" ELSE IF "T" \in vs THEN "T"
    ELSE IF "U" \in vs THEN "U" ELSE "F"

Not3(v) == IF v = "T" THEN "F" ELSE IF v = "F" THEN "T" ELSE v

\* what the engine makes of a clause for one row
RECURSIVE Eval(_, _, _)
Eval(g, x, id) ==
    IF x.k = "empty" THEN "T"
    ELSE IF x.k = "join"
    THEN IF x.op = "AND" THEN And3({ Eval(g, x.args[i], id) : i \in DOMAIN x.args })
         ELSE IF x.op = "OR" THEN Or3({ Eval(g, x.args[i], id) : i \in DOMAIN x.args })
         ELSE "E"
    ELSE IF x.k = "not" THEN Not3(Eval(g, x.args[1], id))
    ELSE IF x.field \notin {"id"} \cup DOMAIN qFsf THEN "E"
    ELSE IF x.k = "isnull" THEN (IF Column(id, x.field) = <<>> THEN "T" ELSE "F")
    ELSE IF x.k = "in"
    THEN IF x.values = <<>> THEN (IF g = "sqlite" THEN "F" ELSE "E")
         ELSE IF Column(id, x.field) = <<>> THEN "U"
         ELSE IF Column(id, x.field)[1] \in SeqRange(x.values) THEN "T" ELSE "F"
    ELSE IF x.op # "=" \/ x.values = <<>> THEN "E"
    ELSE IF Column(id, x.field) = <<>> THEN "U"
    ELSE IF Column(id, x.field) = x.values THEN "T" ELSE "F"

\* getByQuery: [err, ids]
getByQuery(g, where) ==
    IF \E id \in DOMAIN QueryRows : Eval(g, Where(g, where), id) = "E"
    THEN [err |-> TRUE, ids |-> {}]
    ELSE [err |-> FALSE,
          ids |-> { id \in DOMAIN QueryRows : Eval(g, Where(g, where), id) = "T" }]

\* what the condition tree asks for: a filter compares the column, AND
\* needs all children, OR any child, NOT that its child does not hold
RECURSIVE Holds(_, _)
Holds(c, id) ==
    IF c.kind = "filter"
    THEN IF c.op = "IN"
         THEN Column(id, c.field) # <<>>
                 /\ Column(id, c.field)[1] \in SeqRange(c.values)
         ELSE Column(id, c.field) = c.values
    ELSE IF c.op = "AND" THEN \A i \in DOMAIN c.conds : Holds(c.conds[i], id)
    ELSE IF c.op = "OR" THEN \E i \in DOMAIN c.conds : Holds(c.conds[i], id)
    ELSE ~(\A i \in DOMAIN c.conds : Holds(c.conds[i], id))

\* top-level conditions are ANDed
Satisfying(where) ==
    { id \in DOMAIN QueryRows : \A i \in DOMAIN where : Holds(where[i], id) }

\* every filter names a filterSortField and every group has a member
RECURSIVE WellFormed(_)
WellFormed(conds) ==
    \A i \in DOMAIN conds :
        IF conds[i].kind = "filter"
        THEN conds[i].field \in DOMAIN qFsf
        ELSE conds[i].conds # <<>> /\ WellFormed(conds[i].conds)

RECURSIVE HasEmptyIn(_)
HasEmptyIn(conds) ==
    \E i \in DOMAIN conds :
        IF conds[i].kind = "filter"
        THEN conds[i].op = "IN" /\ conds[i].values = <<>>
        ELSE HasEmptyIn(conds[i].conds)

\* the clause holds an IN with an empty list
RECURSIVE EmitsEmptyIn(_)
EmitsEmptyIn(x) ==
    \/ x.k = "in" /\ x.values = <<>>
    \/ \E i \in DOMAIN x.args : EmitsEmptyIn(x.args[i])

\* the arguments of eq(...) and in(...) calls
FilterInputs ==
    { Filter("=", "name", <<"Earth">>), Filter("=", "name", <<"Mars">>),
      Filter("IN", "name", <<>>),
      Filter("=", "id", <<"a">>),
      Filter("=", "constructor", <<"Earth">>),
      Filter("=", "colour", <<"Earth">>) }

\* the sub-queries handed to and(...) and or(...), by their getWhere()
SubQueries ==
    { << <<Filter("=", "name", <<"Earth">>)>>,
         <<Filter("=", "name", <<"Mars">>)>> >>,
      << <<Filter("=", "name", <<"Mars">>), Filter("=", "id", <<"a">>)>>,
         <<Filter("=", "name", <<"Earth">>)>> >> }

SortFields == {"name", "toString", "colour"}

NoCall ==
    [op |-> "new", field |-> "", threw |-> FALSE, changed |-> FALSE,
     err |-> FALSE, ids |-> {}]

QueryInit ==
    /\ engine \in {"sqlite", "mysql"}
    /\ TwinIdle
    /\ PoolIdle
    /\ RebuildIdle
    /\ PatchIdle
    /\ PageIdle
    /\ RelIdle
    /\ StoreIdle
    /\ MigIdle
    /\ HttpIdle
    /\ RegIdle
    /\ HookIdle
    /\ qFsf \in QueryFsfChoices
    /\ qWhere = <<>>
    /\ qGroup = NoGroup
    /\ qSort = <<>>
    /\ qLast = NoCall

\* the filters, groups and sort entries of the query
QuerySize ==
    CountFilters(qWhere) + Len(qGroup.conds) + CountGroups(qWhere)
        + (IF qGroup.open THEN 1 ELSE 0) + Len(qSort)

\* repository.createQuery()
NewQuery ==
    /\ qFsf' \in QueryFsfChoices
    /\ qWhere' = <<>>
    /\ qGroup' = NoGroup
    /\ qSort' = <<>>
    /\ qLast' = NoCall
    /\ QueryOnly

\* query.eq(field, value), query.in(field, values) and the other predicates
AddFilter(f) ==
    /\ FieldDefined(qFsf, f.field) => QuerySize < MaxQuerySize
    /\ LET r == addFilter(qWhere, qGroup, f.op, f.field, f.values)
       IN  /\ qWhere' = r.where
           /\ qGroup' = r.group
           /\ qLast' = [NoCall EXCEPT !.op = "filter", !.field = f.field,
                           !.threw = r.threw,
                           !.changed = (r.where # qWhere \/ r.group # qGroup)]
    /\ UNCHANGED <<qFsf, qSort>>
    /\ QueryOnly

\* query.and(), query.or() without arguments, query.and(q1, q2), query.or(q1, q2)
Logical(op, wheres) ==
    /\ QuerySize + 1 + CountFilters(FlatMap(wheres)) <= MaxQuerySize
    /\ \A i \in DOMAIN wheres : \A j \in DOMAIN wheres[i] :
          FieldDefined(qFsf, wheres[i][j].field)
    /\ LET r == logical(qWhere, qGroup, op, wheres)
       IN  /\ qWhere' = r.where
           /\ qGroup' = r.group
    /\ qLast' = [NoCall EXCEPT !.op = "logical", !.changed = TRUE]
    /\ UNCHANGED <<qFsf, qSort>>
    /\ QueryOnly

\* query.not()
Not ==
    /\ QuerySize < MaxQuerySize
    /\ qWhere' = finalizeGroup(qWhere, qGroup).where
    /\ qGroup' = OpenGroup("NOT")
    /\ qLast' = [NoCall EXCEPT !.op = "not", !.changed = TRUE]
    /\ UNCHANGED <<qFsf, qSort>>
    /\ QueryOnly

\* query.sort(field, direction)
Sort(field, direction) ==
    /\ FieldDefined(qFsf, field) => QuerySize < MaxQuerySize
    /\ LET r == sort(qSort, field, direction)
       IN  /\ qSort' = r.sort
           /\ qLast' = [NoCall EXCEPT !.op = "sort", !.field = field,
                           !.threw = r.threw, !.changed = (r.sort # qSort)]
    /\ UNCHANGED <<qFsf, qWhere, qGroup>>
    /\ QueryOnly

\* repository.getByQuery(query): getWhere() closes the pending group
GetByQuery ==
    /\ LET f == finalizeGroup(qWhere, qGroup)
           r == getByQuery(engine, f.where)
       IN  /\ qWhere' = f.where
           /\ qGroup' = f.group
           /\ qLast' = [NoCall EXCEPT !.op = "getByQuery", !.err = r.err,
                           !.ids = r.ids,
                           !.changed = (f.where # qWhere \/ f.group # qGroup)]
    /\ UNCHANGED <<qFsf, qSort>>
    /\ QueryOnly

QueryNext ==
    \/ NewQuery
    \/ \E f \in FilterInputs : AddFilter(f)
    \/ \E op \in {"AND", "OR"}, wheres \in SubQueries \cup {<<>>} : Logical(op, wheres)
    \/ Not
    \/ \E field \in SortFields, direction \in {"asc"} : Sort(field, direction)
    \/ GetByQuery

SpecQuery == QueryInit /\ [][QueryNext]_vars

-----------------------------------------------------------------------------
(* Properties of the query builder and of getByQuery.                      *)

\* C8: on each backend getByQuery returns exactly the rows that satisfy
\* the condition tree: top-level conditions conjoined, AND all children, OR
\* any child, NOT when its child does not hold.  Stated for queries whose
\* filters name filterSortFields, whose groups have members and whose IN
\* lists are not empty.
C8_ReturnsSatisfyingRows ==
    (qLast.op = "getByQuery" /\ WellFormed(qWhere) /\ ~HasEmptyIn(qWhere)) =>
        (~qLast.err /\ qLast.ids = Satisfying(qWhere))

\* C9: a query whose top-level conditions are filters on filterSortFields,
\* one of them in(field, []), returns no rows on both engines, and the
\* statement sent to the engine holds no IN with an empty list.
C9_EmptyInMatchesNothing ==
    (/\ qLast.op = "getByQuery"
     /\ WellFormed(qWhere)
     /\ \A i \in DOMAIN qWhere : qWhere[i].kind = "filter"
     /\ HasEmptyIn(qWhere)) =>
        /\ ~qLast.err
        /\ qLast.ids = {}
        /\ ~EmitsEmptyIn(Where(engine, qWhere))

\* C10: a predicate method or sort called with a field that is not a key of
\* filterSortFields throws a TypeError and leaves the conditions, the
\* pending group and the sort list as they were.
C10_UnknownFieldThrows ==
    (qLast.op \in {"filter", "sort"} /\ qLast.field \notin DOMAIN qFsf) =>
        (qLast.threw /\ ~qLast.changed)

\* C16 as stated: eq('id', x.id) is accepted whether or not the
\* filterSortFields list id, and getByQuery then returns x alone.
C16_IdFilterAlwaysAccepted ==
    /\ (qLast.op = "filter" /\ qLast.field = "id") =>
          (~qLast.threw /\ qLast.changed)
    /\ (qLast.op = "getByQuery" /\ qWhere = <<Filter("=", "id", <<"a">>)>>) =>
          (~qLast.err /\ qLast.ids = {"a"})

\* C16: eq('id', x.id) is accepted exactly when the filterSortFields the
\* query was created with list id; the query made of that filter returns x
\* alone on either engine.
C16_IdFilterAcceptedWhenListed ==
    /\ (qLast.op = "filter" /\ qLast.field = "id") =>
          /\ qLast.threw <=> ("id" \notin DOMAIN qFsf)
          /\ qLast.changed <=> ("id" \in DOMAIN qFsf)
    /\ (qLast.op = "getByQuery" /\ qWhere = <<Filter("=", "id", <<"a">>)>>) =>
          (~qLast.err /\ qLast.ids = {"a"})

C16_Witness ==
    /\ qLast.op = "getByQuery" /\ qWhere = <<Filter("=", "id", <<"a">>)>>
    /\ qLast.ids = {"a"}
    /\ engine = "mysql"

\* every group of the list, at any depth, has the number of conditions its
\* operator asks for: one for NOT, one or more for AND and OR
RECURSIVE GroupsHaveMembers(_)
GroupsHaveMembers(conds) ==
    \A i \in DOMAIN conds :
        conds[i].kind = "group" =>
            /\ IF conds[i].op = "NOT" THEN Len(conds[i].conds) = 1
               ELSE Len(conds[i].conds) >= 1
            /\ GroupsHaveMembers(conds[i].conds)

\* C29: in the list getWhere() returns (getByQuery reads it), every group,
\* at any depth, is a NOT group with exactly one condition or an AND or OR
\* group with at least one condition.
C29_GroupsWellSized ==
    (qLast.op = "getByQuery") => GroupsHaveMembers(qWhere)

\* no condition of the list is a filter, at any depth
OnlyEmptyGroups(conds) == CountFilters(conds) = 0

\* the clause holds a connective without operands, an empty operand or a
\* comparison without a field
RECURSIVE EmitsEmptyGroup(_)
EmitsEmptyGroup(x) ==
    \/ x.k \in {"join", "not"} /\ x.args = <<>>
    \/ x.k = "cmp" /\ x.field = "undefined"
    \/ \E i \in DOMAIN x.args :
           x.args[i] = EmptyClause \/ EmitsEmptyGroup(x.args[i])

\* C30: a group without conditions adds nothing to the statement: the WHERE
\* clause getByQuery sends holds no empty group and no connective without
\* operands, and a query made of empty groups only is run without a WHERE
\* clause and returns every row.
C30_EmptyGroupsEmitNothing ==
    (qLast.op = "getByQuery") =>
        /\ ~EmitsEmptyGroup(Where(engine, qWhere))
        /\ OnlyEmptyGroups(qWhere) =>
              /\ Where(engine, qWhere) = EmptyClause
              /\ ~qLast.err
              /\ qLast.ids = DOMAIN QueryRows

\* C31: a predicate added right after not() is pushed alone in a NOT group
\* and the group is closed, so the predicate after it is pushed as a plain
\* condition; a predicate added while an and()/or() group is pending joins
\* that group, which stays pending; the next and(), or(), not() or
\* getWhere() closes the pending group with the predicates it collected.
C31_GroupScope ==
    [][ /\ (qLast'.op = "filter" /\ ~qLast'.threw) =>
              \E f \in FilterInputs :
                 /\ f.field = qLast'.field
                 /\ IF qGroup.open /\ qGroup.op = "NOT"
                    THEN /\ qWhere' = Append(qWhere, Group("NOT", <<f>>))
                         /\ qGroup' = NoGroup
                    ELSE IF qGroup.open
                    THEN /\ qWhere' = qWhere
                         /\ qGroup' = [open |-> TRUE, op |-> qGroup.op,
                                       conds |-> Append(qGroup.conds, f)]
                    ELSE /\ qWhere' = Append(qWhere, f)
                         /\ qGroup' = NoGroup
        /\ (qLast'.op \in {"logical", "not", "getByQuery"} /\ qGroup.open) =>
              /\ Len(qWhere') >= Len(qWhere) + 1
              /\ SubSeq(qWhere', 1, Len(qWhere) + 1) =
                    Append(qWhere, Group(qGroup.op, qGroup.conds)) ]_vars

\* not().eq(name, Earth).eq(name, Mars): the second predicate is not negated
C31_Witness ==
    /\ qLast.op = "filter" /\ ~qGroup.open
    /\ qWhere = <<Group("NOT", <<Filter("=", "name", <<"Earth">>)>>),
                  Filter("=", "name", <<"Mars">>)>>

\* C38: for sub-queries q1 and q2 of the repository, with one or several
\* top-level predicates, getByQuery of the query or(q1, q2) returns the
\* union of the rows getByQuery(q1) and getByQuery(q2) return, and
\* getByQuery of and(q1, q2) their intersection.
C38_OrIsUnionAndIsIntersection ==
    \A w \in SubQueries :
        (qLast.op = "getByQuery" /\ WellFormed(qWhere)) =>
            /\ (qWhere = <<Group("OR", FlatMap(w))>>) =>
                  /\ ~qLast.err
                  /\ qLast.ids = getByQuery(engine, w[1]).ids
                                     \cup getByQuery(engine, w[2]).ids
            /\ (qWhere = <<Group("AND", FlatMap(w))>>) =>
                  /\ ~qLast.err
                  /\ qLast.ids = getByQuery(engine, w[1]).ids
                                     \cap getByQuery(engine, w[2]).ids

-----------------------------------------------------------------------------
(* The repository registry of the entity manager.  A namespace is <<>>      *)
(* when the definition has none and <<ns>> otherwise.                      *)

\* the largest number of repositories the registry is given to store
MaxRepositories == 4

Namespaces == {<<>>, <<"a">>}
EntityNames == {"b", "a_b"}

\* getFullEntityName: namespace_name, or name when there is no namespace
getFullEntityName(name, namespace) ==
    IF namespace # <<>> THEN namespace[1] \o "_" \o name ELSE name

\* a registry that never finds an entity registered
NeverCached(repos, full) == FALSE

\* this.repositories.has(fullEntityName)
IsCached(repos, full) == full \in DOMAIN repos

\* the Repository instance construction number n, bound to (name, namespace)
NewRepository(n, name, namespace) ==
    [inst |-> n, name |-> name, namespace |-> namespace]

NoRepository == NewRepository(0, "", <<>>)

\* addEntity seen from the registry: the cached repository when the full
\* name is registered; otherwise create the table, synchronise, construct
\* the repository and store it.  [threw, repo, repos, made]
registerEntity(repos, made, name, namespace, syncOk) ==
    LET full == getFullEntityName(name, namespace)
    IN  IF IsCached(repos, full)
        THEN [threw |-> FALSE, repo |-> repos[full], repos |-> repos,
              made |-> made]
        ELSE IF ~syncOk
        THEN [threw |-> TRUE, repo |-> NoRepository, repos |-> repos,
              made |-> made]
        ELSE [threw |-> FALSE,
              repo |-> NewRepository(made + 1, name, namespace),
              repos |-> (full :> NewRepository(made + 1, name, namespace))
                            @@ repos,
              made |-> made + 1]

\* getRepository: [threw, repo]
getRepository(repos, name, namespace) ==
    LET full == getFullEntityName(name, namespace)
    IN  IF full \notin DOMAIN repos
        THEN [threw |-> TRUE, repo |-> NoRepository]
        ELSE [threw |-> FALSE, repo |-> repos[full]]

NoRegCall ==
    [op |-> "none", name |-> "", namespace |-> <<>>, full |-> "",
     threw |-> FALSE, repo |-> NoRepository]

RegInit ==
    /\ engine \in {"sqlite", "mysql"}
    /\ TwinIdle
    /\ PoolIdle
    /\ RebuildIdle
    /\ PatchIdle
    /\ PageIdle
    /\ RelIdle
    /\ StoreIdle
    /\ MigIdle
    /\ HttpIdle
    /\ QueryIdle
    /\ HookIdle
    /\ repositories = [k \in {} |-> NoRepository]
    /\ constructed = 0
    /\ lastReg = NoRegCall

\* entityManager.addEntity(definition); syncOk: the synchronizer returns
RegAddEntity(name, namespace, syncOk) ==
    /\ constructed < MaxRepositories
    /\ \E r \in {registerEntity(repositories, constructed, name, namespace, syncOk)} :
          /\ repositories' = r.repos
          /\ constructed' = r.made
          /\ lastReg' = [op |-> "addEntity",
                         name |-> name, namespace |-> namespace,
                         full |-> getFullEntityName(name, namespace),
                         threw |-> r.threw, repo |-> r.repo]
    /\ RegistryOnly

\* entityManager.getRepository(name, namespace)
RegGetRepository(name, namespace) ==
    /\ \E r \in {getRepository(repositories, name, namespace)} :
          lastReg' = [op |-> "getRepository",
                      name |-> name, namespace |-> namespace,
                      full |-> getFullEntityName(name, namespace),
                      threw |-> r.threw, repo |-> r.repo]
    /\ UNCHANGED <<repositories, constructed>>
    /\ RegistryOnly

RegNext ==
    \/ \E name \in EntityNames, namespace \in Namespaces, syncOk \in BOOLEAN :
          RegAddEntity(name, namespace, syncOk)
    \/ \E name \in EntityNames, namespace \in Namespaces :
          RegGetRepository(name, namespace)

SpecRegistry == RegInit /\ [][RegNext]_vars

\* C17: a full name that holds a repository keeps that repository; addEntity
\* for a registered full name returns it and constructs none; getRepository
\* for a full name that is not registered throws; neither changes the
\* registry then.
C17_OneRepositoryPerFullName ==
    [][ /\ \A f \in DOMAIN repositories :
              f \in DOMAIN repositories' /\ repositories'[f] = repositories[f]
        /\ (lastReg'.op = "addEntity" /\ lastReg'.full \in DOMAIN repositories) =>
              /\ ~lastReg'.threw
              /\ lastReg'.repo = repositories[lastReg'.full]
              /\ repositories' = repositories
              /\ constructed' = constructed
        /\ (lastReg'.op = "getRepository"
                /\ lastReg'.full \notin DOMAIN repositories) =>
              /\ lastReg'.threw
              /\ repositories' = repositories ]_vars

\* the entity b of namespace a is added again after another entity was
C17_Witness ==
    /\ lastReg.op = "addEntity" /\ ~lastReg.threw
    /\ lastReg.repo.inst = 1
    /\ lastReg.repo.namespace = <<"a">>
    /\ constructed = 2

\* C40: two different (name, namespace) pairs have different registry
\* keys, and the repository getRepository(name, namespace) returns is the
\* one that was constructed for that name and that namespace.
C40_RepositoryOfExactPair ==
    /\ \A n1 \in EntityNames, n2 \in EntityNames :
          \A ns1 \in Namespaces, ns2 \in Namespaces :
             (<<n1, ns1>> # <<n2, ns2>>) =>
                getFullEntityName(n1, ns1) # getFullEntityName(n2, ns2)
    /\ (lastReg.op = "getRepository" /\ ~lastReg.threw) =>
          /\ lastReg.repo.name = lastReg.name
          /\ lastReg.repo.namespace = lastReg.namespace

-----------------------------------------------------------------------------
(* Requests served with hooks: one request against one collection, with   *)
(* what each Hooks object of the collection does when it is called.        *)

HookChoices ==
    { <<>>, <<ReadHooks, TransformHooks>>, <<TransformHooks, BeforeHooks>>,
      <<BeforeHooks, ReadHooks>>, <<OtherHooks, BeforeHooks>>,
      <<ReadTransformHooks, ReadTransformHooks>> }

\* the errors a hook may throw: statusCode 400, 401, 403, 404, 418, or none
AllHookOutcomes == {"pass", "s400", "s401", "s403", "s404", "s418", "plain"}

\* what every Hooks object of the array does when one of its hooks is
\* called: at most one throws, or all throw, each its own error
AllHookRuns(hooks) ==
    { [i \in DOMAIN hooks |-> IF i = t THEN o ELSE "pass"] :
          t \in DOMAIN hooks \cup {0}, o \in AllHookOutcomes \ {"pass"} }
    \cup { [i \in DOMAIN hooks |-> IF i = 1 THEN "s403" ELSE "s400"] }

HookRowSets == { NoRows, ("a" :> [k \in {"name"} |-> Str("Earth")]) }

NoHookCall ==
    [route |-> "none", hooks |-> <<>>, outs |-> <<>>, present |-> FALSE,
     status |-> 0, message |-> "", thrown |-> "", repo |-> FALSE,
     item |-> <<>>]

HookInit ==
    /\ engine \in {"sqlite", "mysql"}
    /\ TwinIdle
    /\ PoolIdle
    /\ RebuildIdle
    /\ PatchIdle
    /\ PageIdle
    /\ RelIdle
    /\ StoreIdle
    /\ MigIdle
    /\ HttpIdle
    /\ QueryIdle
    /\ RegIdle
    /\ hookCall = NoHookCall

\* the response r of a request on the route, recorded with the request
Served(route, hooks, outs, present, r) ==
    [route |-> route, hooks |-> hooks, outs |-> outs, present |-> present,
     status |-> r.status, message |-> r.message, thrown |-> r.thrown,
     repo |-> r.repo, item |-> r.item]

\* GET /<collection>
ServeGet(hooks, rows, outs) ==
    \E r \in {getAction(hooks, rows, outs)} :
        /\ hookCall' = Served("get", hooks, outs, rows # NoRows, r)
        /\ HooksOnly

\* GET /<collection>/a
ServeGetById(hooks, rows, outs) ==
    \E r \in {getByIdAction(hooks, rows, "a", outs)} :
        /\ hookCall' = Served("getById", hooks, outs, rows # NoRows, r)
        /\ HooksOnly

\* POST /<collection>
ServeCreate(hooks, rows, outs) ==
    \E r \in {createAction(engine, hooks, rows, [k \in {"name"} |-> Str("Mars")],
                           outs, "g1")} :
        /\ hookCall' = Served("create", hooks, outs, TRUE, r)
        /\ HooksOnly

\* PATCH /<collection>/a
ServeUpdateById(hooks, rows, outs) ==
    \E r \in {updateByIdAction(engine, hooks, rows, "a",
                               [k \in {"name"} |-> Str("Mars")], outs)} :
        /\ hookCall' = Served("updateById", hooks, outs, rows # NoRows, r)
        /\ HooksOnly

\* DELETE /<collection>/a
ServeDeleteById(hooks, rows, outs) ==
    \E r \in {deleteByIdAction(engine, hooks, rows, "a", outs)} :
        /\ hookCall' = Served("deleteById", hooks, outs, rows # NoRows, r)
        /\ HooksOnly

HookNext ==
    \/ \E hooks \in HookChoices, rows \in HookRowSets :
          \E outs \in AllHookRuns(hooks) : ServeGet(hooks, rows, outs)
    \/ \E hooks \in HookChoices, rows \in HookRowSets :
          \E outs \in AllHookRuns(hooks) : ServeGetById(hooks, rows, outs)
    \/ \E hooks \in HookChoices, rows \in HookRowSets :
          \E outs \in AllHookRuns(hooks) : ServeCreate(hooks, rows, outs)
    \/ \E hooks \in HookChoices, rows \in HookRowSets :
          \E outs \in AllHookRuns(hooks) : ServeUpdateById(hooks, rows, outs)
    \/ \E hooks \in HookChoices, rows \in HookRowSets :
          \E outs \in AllHookRuns(hooks) : ServeDeleteById(hooks, rows, outs)

SpecHooks == HookInit /\ [][HookNext]_vars

\* the hook an endpoint calls before it answers, and whether it also
\* transforms what it answers
FirstHookOf(route) ==
    IF route = "get" THEN "get"
    ELSE IF route = "getById" THEN "getById"
    ELSE IF route = "create" THEN "createBefore"
    ELSE IF route = "updateById" THEN "updateBefore"
    ELSE "deleteBefore"

\* C23: when a get, getById, createBefore, updateBefore, deleteBefore or
\* entityTransform hook throws, the response has the statusCode of the error
\* if that is 400, 401, 403 or 404 and 500 otherwise (no statusCode
\* included), and the message of the error.
C23_HookErrorStatus ==
    LET c == hookCall
        throwing(field) ==
            { i \in DOMAIN c.hooks : c.hooks[i][field] /\ c.outs[i] # "pass" }
        first(field) ==
            CHOOSE i \in throwing(field) : \A j \in throwing(field) : i <= j
        called == c.route \in {"get", "getById", "create"} \/ c.present
        expected ==
            ("s400" :> 400) @@ ("s401" :> 401) @@ ("s403" :> 403)
                @@ ("s404" :> 404) @@ ("s418" :> 500) @@ ("plain" :> 500)
    IN  c.route # "none" =>
          /\ c.thrown # "" =>
                /\ c.status = expected[c.thrown]
                /\ c.message = "thrown " \o c.thrown
          /\ (called /\ throwing(FirstHookOf(c.route)) # {}) =>
                c.thrown = c.outs[first(FirstHookOf(c.route))]
          /\ (/\ c.route # "deleteById"
              /\ c.route = "create" \/ c.present
              /\ throwing(FirstHookOf(c.route)) = {}
              /\ throwing("entityTransform") # {}) =>
                c.thrown = c.outs[first("entityTransform")]

\* an entityTransform hook throws an error with statusCode 418 on PATCH
C23_Witness ==
    /\ hookCall.route = "updateById"
    /\ hookCall.thrown = "s418" /\ hookCall.status = 500
    /\ hookCall.hooks = <<TransformHooks, BeforeHooks>>
    /\ hookCall.outs = <<"s418", "pass">>
    /\ hookCall.repo

\* C33: the entity GET /<collection>/:id answers with went through the
\* getById hooks of the collection in the order of the hooks list, each
\* given what the one before returned, and then through the entityTransform
\* hooks in the order of the list: no entityTransform hook ran before a
\* getById hook.
C33_HooksRunInListOrder ==
    LET c == hookCall
        G == { i \in DOMAIN c.hooks : c.hooks[i].getById }
        T == { i \in DOMAIN c.hooks : c.hooks[i].entityTransform }
        n == Cardinality(G)
    IN  (c.route = "getById" /\ c.status = 200) =>
          /\ Len(c.item) = n + Cardinality(T)
          /\ { c.item[k][2] : k \in 1..n } = G
          /\ { c.item[k][2] : k \in (n + 1)..Len(c.item) } = T
          /\ \A k \in 1..Len(c.item) :
                c.item[k][1] = IF k <= n THEN "getById" ELSE "entityTransform"
          /\ \A k \in 1..(Len(c.item) - 1) :
                (k # n) => c.item[k][2] < c.item[k + 1][2]

\* two Hooks objects, each with a getById and an entityTransform hook
C33_Witness ==
    /\ hookCall.route = "getById" /\ hookCall.status = 200
    /\ hookCall.hooks = <<ReadTransformHooks, ReadTransformHooks>>
    /\ hookCall.item = << <<"getById", 1>>, <<"getById", 2>>,
                          <<"entityTransform", 1>>, <<"entityTransform", 2>> >>

-----------------------------------------------------------------------------
(* Relations.  The entity moon has the relation planet (one planet) and    *)
(* the relation visited (multiple planets); a moon row stores the ids.     *)

PlanetIds == {"p1", "p2", "p3"}
MoonIds == {"m1", "m2"}

\* the planets table in the order the engine walks its primary key
PlanetOrder == <<"p1", "p2", "p3">>

\* the entity of a planet row, and null
Planet(id) == [id |-> id]
Null == [id |-> "null"]

\* the lists of ids a multiple relation can hold
RECURSIVE IdLists(_)
IdLists(n) ==
    IF n = 0 THEN {<<>>}
    ELSE IdLists(n - 1) \cup
         { Append(l, id) : l \in { x \in IdLists(n - 1) : Len(x) = n - 1 },
                           id \in PlanetIds }

Distinct(l) == \A i, j \in DOMAIN l : l[i] = l[j] => i = j

VisitedLists == { l \in IdLists(3) : Distinct(l) }

\* getById on the planets table
PlanetById(planets, id) == IF id \in planets THEN Planet(id) ELSE Null

\* getByIds: SELECT id, contents FROM planets WHERE id IN (?, ...), the rows
\* in the order of the table
getByIds(planets, ids) ==
    LET Hit(id) == id \in planets /\ \E i \in DOMAIN ids : ids[i] = id
        found == SelectSeq(PlanetOrder, Hit)
    IN  [i \in DOMAIN found |-> Planet(found[i])]

\* fillInRelations: one id resolves to its entity or to null; a list of ids
\* resolves through getByIds, in the order of the ids, unresolved ids dropped
\* an expansion that hands out what getByIds returned
FillInRelationsAsFound(planets, row) ==
    [planet |-> PlanetById(planets, row.planet),
     visited |-> getByIds(planets, row.visited)]

FillInRelations(planets, row) ==
    LET found == getByIds(planets, row.visited)
        Resolved(id) == \E i \in DOMAIN found : found[i].id = id
        kept == SelectSeq(row.visited, Resolved)
    IN  [planet |-> PlanetById(planets, row.planet),
         visited |-> [i \in DOMAIN kept |-> Planet(kept[i])]]

\* deleteUsingId on the planets table: DELETE FROM planets WHERE id = ?
DeletePlanetUsingId(t, id) == [t EXCEPT !.planets = @ \ {id}]

NoRelCall == [op |-> "none", id |-> "", entity |-> <<>>]

RelInit ==
    /\ engine \in {"sqlite", "mysql"}
    /\ TwinIdle
    /\ PoolIdle
    /\ RebuildIdle
    /\ PatchIdle
    /\ PageIdle
    /\ StoreIdle
    /\ MigIdle
    /\ HttpIdle
    /\ QueryIdle
    /\ RegIdle
    /\ HookIdle
    /\ relTables = [planets |-> PlanetIds, moons |-> <<>>]
    /\ relLast = NoRelCall

\* moons.create({id, planet, visited}): the row stores the ids
RelCreateMoon(id, planet, visited) ==
    /\ id \notin DOMAIN relTables.moons
    /\ planet \in relTables.planets
    /\ \A i \in DOMAIN visited : visited[i] \in relTables.planets
    /\ relTables' = [relTables EXCEPT !.moons =
                        (id :> [planet |-> planet, visited |-> visited]) @@ @]
    /\ relLast' = [NoRelCall EXCEPT !.op = "create", !.id = id]
    /\ RelationsOnly

\* planets.deleteUsingId(id)
RelDeletePlanet(id) ==
    /\ relTables' = DeletePlanetUsingId(relTables, id)
    /\ relLast' = [NoRelCall EXCEPT !.op = "delete", !.id = id]
    /\ RelationsOnly

\* moons.getById(id)
RelGetMoon(id) ==
    /\ id \in DOMAIN relTables.moons
    /\ relLast' = [NoRelCall EXCEPT !.op = "getById", !.id = id,
                      !.entity = FillInRelations(relTables.planets,
                                                 relTables.moons[id])]
    /\ UNCHANGED relTables
    /\ RelationsOnly

RelNext ==
    \/ \E id \in MoonIds, planet \in PlanetIds, visited \in VisitedLists :
          RelCreateMoon(id, planet, visited)
    \/ \E id \in PlanetIds : RelDeletePlanet(id)
    \/ \E id \in MoonIds : RelGetMoon(id)

SpecRelations == RelInit /\ [][RelNext]_vars

\* l lists distinct elements of m in the order they have in m
InOrderOf(l, m) ==
    \A i, j \in DOMAIN l :
        i < j => \E a, b \in DOMAIN m : a < b /\ m[a] = l[i] /\ m[b] = l[j]

\* C32: deleting a planet leaves every moon row as it was; a moon read
\* afterwards has null for its planet when that planet is gone, and for its
\* visited planets the ones that still exist, in the order of the stored
\* ids.
C32_DeleteDoesNotCascade ==
    [][ /\ (relLast'.op = "delete") =>
              /\ relTables'.moons = relTables.moons
              /\ relTables'.planets = relTables.planets \ {relLast'.id}
        /\ (relLast'.op = "getById") =>
              LET row == relTables.moons[relLast'.id]
                  e == relLast'.entity
                  ids == [i \in DOMAIN e.visited |-> e.visited[i].id]
              IN  /\ e.planet = IF row.planet \in relTables.planets
                                THEN Planet(row.planet) ELSE Null
                  /\ { ids[i] : i \in DOMAIN ids } =
                        { row.visited[i] : i \in DOMAIN row.visited }
                            \cap relTables.planets
                  /\ Len(ids) <= Len(row.visited)
                  /\ InOrderOf(ids, row.visited) ]_vars

\* a moon that visited p3, p2, p1 and orbits p2, read after p2 was deleted
C32_Witness ==
    /\ relLast.op = "getById"
    /\ relTables.planets = {"p1", "p3"}
    /\ relTables.moons[relLast.id] =
          [planet |-> "p2", visited |-> <<"p3", "p2", "p1">>]
    /\ relLast.entity =
          [planet |-> Null, visited |-> <<Planet("p3"), Planet("p1")>>]

-----------------------------------------------------------------------------
(* Paging.  The rows that match the filters, sorted, are numbered 1..n; a  *)
(* query parameter is <<>> when it is not given and <<text>> when it is.   *)

\* the largest number of matching rows
MaxMatching == 27

\* const { limit = '25', offset = '0' } = params
DefaultLimit == 25
DefaultOffset == 0

ParamTexts == {"-1", "0", "1", "2", "3", "abc"}

\* parseInt(text, 10): <<n>>, or <<>> for NaN
ParseInt(text) ==
    IF text = "-1" THEN <<-1>>
    ELSE IF text = "0" THEN <<0>>
    ELSE IF text = "1" THEN <<1>>
    ELSE IF text = "2" THEN <<2>>
    ELSE IF text = "3" THEN <<3>>
    ELSE IF text = "25" THEN <<25>>
    ELSE <<>>

\* parseInt(text, 10) || fallback
ParseIntOr(text, fallback) ==
    IF ParseInt(text) \in {<<>>, <<0>>} THEN fallback ELSE ParseInt(text)[1]

\* limitOffset: [limited, limit, offset]; query.limit(undefined) is
\* limited = FALSE
limitOffset(limitParam, offsetParam) ==
    LET limit == IF limitParam = <<>> THEN "25" ELSE limitParam[1]
        offset == IF offsetParam = <<>> THEN "0" ELSE offsetParam[1]
    IN  [limited |-> limit # "-1",
         limit |-> IF limit = "-1" THEN 0 ELSE ParseIntOr(limit, DefaultLimit),
         offset |-> ParseIntOr(offset, DefaultOffset)]

Min(a, b) == IF a < b THEN a ELSE b

\* getByQuery: if (query.getLimit()) LIMIT <offset>,<limit>
Paged(n, q) ==
    IF q.limited /\ q.limit # 0
    THEN [i \in 1..(Min(n, q.offset + q.limit) - Min(n, q.offset)) |->
             Min(n, q.offset) + i]
    ELSE [i \in 1..n |-> i]

NoPage == [n |-> 0, limit |-> <<>>, offset |-> <<>>, data |-> <<>>, asked |-> FALSE]

PageInit ==
    /\ engine \in {"sqlite", "mysql"}
    /\ TwinIdle
    /\ PoolIdle
    /\ RebuildIdle
    /\ PatchIdle
    /\ StoreIdle
    /\ MigIdle
    /\ HttpIdle
    /\ QueryIdle
    /\ RegIdle
    /\ HookIdle
    /\ RelIdle
    /\ page = NoPage

\* GET /<collection>?limit=..&offset=.. on a collection with n matching rows
GetPage(n, limitParam, offsetParam) ==
    /\ page' = [n |-> n, limit |-> limitParam, offset |-> offsetParam,
                data |-> Paged(n, limitOffset(limitParam, offsetParam)),
                asked |-> TRUE]
    /\ PagingOnly

PageNext ==
    \E n \in 0..MaxMatching,
       limitParam \in {<<>>} \cup { <<t>> : t \in {"-1", "2", "abc"} },
       offsetParam \in {<<>>} \cup { <<t>> : t \in {"0", "1", "3", "abc"} } :
        GetPage(n, limitParam, offsetParam)

SpecPaging == PageInit /\ [][PageNext]_vars

\* C34: without a limit parameter the data are at most 25 rows, with
\* limit=-1 all the rows that follow the offset; in both cases offset=k
\* leaves out exactly the first k of the sorted matching rows (all of them
\* when there are fewer than k).
C34_OffsetSkipsRows ==
    LET k == IF page.offset = <<"1">> THEN 1
             ELSE IF page.offset = <<"3">> THEN 3 ELSE 0
        first == IF k < page.n THEN k + 1 ELSE page.n + 1
    IN  (page.asked /\ page.offset # <<"abc">>) =>
          /\ (page.limit = <<>>) =>
                /\ Len(page.data) = Min(25, page.n + 1 - first)
                /\ \A i \in DOMAIN page.data : page.data[i] = first + i - 1
          /\ (page.limit = <<"-1">>) =>
                /\ Len(page.data) = page.n + 1 - first
                /\ \A i \in DOMAIN page.data : page.data[i] = first + i - 1

-----------------------------------------------------------------------------
(* Two PATCH /<collection>/a requests in flight.  A handler gives up the   *)
(* thread at each await: after repository.getById and after               *)
(* repository.update.                                                      *)

PatchRequests == {"A", "B"}

\* request A changes the name, request B the distance
PatchBodyOf(r) ==
    IF r = "A"
    THEN { [k \in {"name"} |-> Str(n)] : n \in {"Mars", "Venus", "Pluto"} }
    ELSE { [k \in {"distance"} |-> Str(n)] : n \in {"near", "far", "away"} }

PatchStoredRows ==
    { ("name" :> Str(n)) @@ ("distance" :> Str(d)) :
          n \in {"Earth", "Terra"}, d \in {"one", "two"} }

PatchInit ==
    /\ engine \in {"sqlite", "mysql"}
    /\ TwinIdle
    /\ PoolIdle
    /\ RebuildIdle
    /\ StoreIdle
    /\ MigIdle
    /\ HttpIdle
    /\ QueryIdle
    /\ RegIdle
    /\ HookIdle
    /\ RelIdle
    /\ PageIdle
    /\ patchRows \in { ("a" :> row) : row \in PatchStoredRows }
    /\ patchReqs \in { [r \in PatchRequests |->
                           [pc |-> "start", item |-> NoEntity, body |-> b[r]]] :
                        b \in { f \in [PatchRequests ->
                                        UNION { PatchBodyOf(r) : r \in PatchRequests }] :
                                  \A r \in PatchRequests : f[r] \in PatchBodyOf(r) } }

\* const item = await repository.getById(id)
PatchGetById(r) ==
    /\ patchReqs[r].pc = "start"
    /\ patchReqs' = [patchReqs EXCEPT
                        ![r].pc = "read",
                        ![r].item = queryById(CollDef, Tbl(patchRows), "a")]
    /\ UNCHANGED patchRows
    /\ PatchOnly

\* updatedEntity = { ...item, ...body }; the collection has no hooks;
\* updatedResult = await collection.repository.update(updatedEntity)
PatchUpdate(r) ==
    /\ patchReqs[r].pc = "read"
    /\ patchRows' = update(engine, CollDef, Tbl(patchRows),
                           Spread(patchReqs[r].item, patchReqs[r].body)).rows
    /\ patchReqs' = [patchReqs EXCEPT ![r].pc = "done"]
    /\ PatchOnly

PatchNext ==
    \/ \E r \in PatchRequests : PatchGetById(r)
    \/ \E r \in PatchRequests : PatchUpdate(r)

SpecPatch == PatchInit /\ [][PatchNext]_vars

\* C35: once both requests have completed, the stored row has the name
\* request A sent and the distance request B sent.
C35_BothPatchesTakeEffect ==
    (\A r \in PatchRequests : patchReqs[r].pc = "done") =>
        /\ patchRows["a"]["name"] = patchReqs["A"].body["name"]
        /\ patchRows["a"]["distance"] = patchReqs["B"].body["distance"]

-----------------------------------------------------------------------------
(* A rebuild cut short.  The process ends after one of the statements of   *)
(* a table rebuild; every statement is committed on its own.  A new        *)
(* instance then adds the same entity.                                     *)

\* the steps of a rebuild after which the process may end
RebuildSteps == {"shadow", "copy", "drop", "rename"}

\* the fields of the first rebuild addEntity runs on the table: the one of
\* migrateContentsColumn when contents is text, else the one of sync when
\* the columns differ; none: <<>>, else <<fields>>
FirstRebuild(d, e, g, fl) ==
    IF IsText(d, g, fl)
    THEN <<IF e.fsfDefined THEN FilterSortFieldNames(e) ELSE {}>>
    ELSE IF ~e.fsfDefined THEN <<>>
    ELSE IF g = "sqlite"
    THEN IF \/ SqliteTableColumns(d.main) # SqliteMapFilterSortFieldsToColumns(e)
            \/ NonGeneratedColumns(d.main, FilterSortFieldNames(e)) # {}
         THEN <<FilterSortFieldNames(e)>> ELSE <<>>
    ELSE IF \/ MysqlTableColumns(d.main) # MysqlMapFilterSortFieldsToColumns(e)
            \/ NonGeneratedColumns(d.main, FilterSortFieldNames(e)) # {}
         THEN <<FilterSortFieldNames(e)>> ELSE <<>>

\* the tables after the rebuild ran up to the step and no further:
\* DROP TABLE IF EXISTS <t>_2; CREATE TABLE <t>_2 | copy of the rows |
\* DROP TABLE <t> | ALTER TABLE <t>_2 RENAME TO <t>
RebuildUpTo(step, d, e, fields, g, fl) ==
    LET oldAll == getAll(e, d.main)
        shadow == IF g = "sqlite"
                  THEN SqliteShadow([d EXCEPT !.shadow = NoTable], e, fields)
                  ELSE MysqlShadow(e, fields, fl)
        copied == IF g = "sqlite"
                  THEN SqliteCopy(e, oldAll, DOMAIN oldAll, shadow).t
                  ELSE MysqlCopy(e, oldAll, DOMAIN oldAll, shadow).t
    IN  IF step = "shadow" THEN [main |-> d.main, shadow |-> shadow]
        ELSE IF step = "copy" THEN [main |-> d.main, shadow |-> copied]
        ELSE IF step = "drop" THEN [main |-> NoTable, shadow |-> copied]
        ELSE [main |-> copied, shadow |-> NoTable]

\* the tables addEntity may find: a legacy table, or a table an earlier
\* addEntity without filterSortFields created, with rows that are JSON
RebuildTables(g, fl) ==
    { t \in LegacyTables(g) : Parses(t) }
    \cup { [exists |-> TRUE, ctype |-> JsonColumn(g, fl).ctype,
            check |-> JsonColumn(g, fl).check, cols |-> NoCols, idx |-> {},
            rows |-> r] : r \in { x \in LegacyRowSets :
                                    \A i \in DOMAIN x : x[i] # BadJson } }

NoInterruption == [step |-> "none", def |-> NoDef, rows |-> NoRows]

RebuildInit ==
    /\ engine \in {"sqlite", "mysql"}
    /\ TwinIdle
    /\ PoolIdle
    /\ MigIdle
    /\ HttpIdle
    /\ QueryIdle
    /\ RegIdle
    /\ HookIdle
    /\ RelIdle
    /\ PageIdle
    /\ PatchIdle
    /\ flavor \in Flavors(engine)
    /\ db \in { [main |-> m, shadow |-> NoTable] :
                   m \in RebuildTables(engine, flavor) }
    /\ registered = FALSE
    /\ def = NoDef
    /\ migDone = FALSE
    /\ lastOp = NoOp
    /\ interrupted = NoInterruption

\* superSave.addEntity(e) whose first rebuild ends after the step, with the
\* process
InterruptRebuild(e, step) ==
    /\ interrupted.step = "none"
    /\ ~registered
    /\ ValidDefinition(e)
    /\ ~HasInvalidName(e)
    /\ FirstRebuild(db, e, engine, flavor) # <<>>
    /\ db' = RebuildUpTo(step, db, e, FirstRebuild(db, e, engine, flavor)[1],
                         engine, flavor)
    /\ interrupted' = [step |-> step, def |-> e, rows |-> db.main.rows]
    /\ lastOp' = [NoOp EXCEPT !.op = "interrupted", !.ok = FALSE,
                     !.pre = db.main.rows]
    /\ UNCHANGED <<engine, flavor, registered, def, migDone>>
    /\ StoreAndRebuildOnly

\* a new instance adds the entity of the rebuild that was cut short
AddEntityAgain ==
    /\ interrupted.step # "none"
    /\ \E e \in {interrupted.def} : AddEntity(e, FALSE)

RebuildNext ==
    \/ \E e \in Definitions, step \in RebuildSteps : InterruptRebuild(e, step)
    \/ AddEntityAgain

SpecRebuild == RebuildInit /\ [][RebuildNext]_vars

\* C36: when addEntity has run again after a rebuild was cut short, the
\* table exists and holds a row for every id the table held before the
\* rebuild, whatever the step the rebuild ended after.
C36_InterruptedRebuildKeepsRows ==
    (interrupted.step # "none" /\ lastOp.op = "addEntity" /\ lastOp.ok) =>
        /\ db.main.exists
        /\ DOMAIN interrupted.rows \subseteq DOMAIN db.main.rows

-----------------------------------------------------------------------------
(* The MySQL synchronizer on a shared pool.  sync takes a connection for  *)
(* each of its two scopes; the repository it was given runs its queries   *)
(* on the pool.  Requests of other repositories use the same pool.         *)

\* the largest connectionLimit of the pool
MaxConnections == 2

\* the connections of the pool nobody holds
FreeConnections(p) ==
    p.limit - p.others - p.held - (IF p.query = "running" THEN 1 ELSE 0)

\* the fields the rebuild of the scope creates columns for
ScopeFields(p) ==
    IF p.scope = "migrate" /\ ~p.def.fsfDefined THEN {}
    ELSE FilterSortFieldNames(p.def)

\* whether the body of the scope reaches
\* const oldAll = await repository.getAll();
ScopeReadsAll(p, d, fl) ==
    /\ MysqlGeneratedColumns(ScopeFields(p))
    /\ IF p.scope = "migrate"
       THEN MysqlContentsColumnType(d.main, fl) \in {"text", "longtext"}
       ELSE \/ MysqlTableColumns(d.main)
                  # MysqlMapFilterSortFieldsToColumns(p.def)
            \/ NonGeneratedColumns(d.main, FilterSortFieldNames(p.def)) # {}

\* what the body of the scope has done to the tables when it is left
ScopeResult(p, d, fl) ==
    IF p.scope = "migrate" THEN MysqlMigrateContentsColumn(d, p.def, fl)
    ELSE MysqlSyncColumns([ok |-> TRUE, ran |-> FALSE, d |-> d,
                           conns |-> <<>>], p.def, fl)

NoSync == [limit |-> 1, others |-> 0, held |-> 0, query |-> "none",
           pc |-> "idle", scope |-> "none", def |-> NoDef]

PoolInit ==
    /\ engine = "mysql"
    /\ TwinIdle
    /\ MigIdle
    /\ HttpIdle
    /\ QueryIdle
    /\ RegIdle
    /\ HookIdle
    /\ RelIdle
    /\ PageIdle
    /\ PatchIdle
    /\ RebuildIdle
    /\ flavor \in Flavors(engine)
    /\ db \in { [main |-> m, shadow |-> NoTable] :
                   m \in RebuildTables(engine, flavor) }
    /\ registered = FALSE
    /\ def = NoDef
    /\ migDone = FALSE
    /\ lastOp = NoOp
    /\ pool \in { [NoSync EXCEPT !.limit = n] : n \in 1..MaxConnections }

\* sync(entity, tableName, pool, repository) is called
SyncCalled(e) ==
    /\ pool.pc = "idle"
    /\ ValidDefinition(e)
    /\ pool' = [pool EXCEPT !.pc = "acquire", !.scope = "migrate", !.def = e]
    /\ UNCHANGED storeVars
    /\ StoreAndPoolOnly

\* const connection = await getConnectionFromPool(pool);
GetConnectionFromPool ==
    /\ pool.pc = "acquire"
    /\ FreeConnections(pool) > 0
    /\ pool' = [pool EXCEPT !.pc = "body", !.held = 1]
    /\ UNCHANGED storeVars
    /\ StoreAndPoolOnly

\* the body of the scope up to the copy of the rows: repository.getAll()
\* hands its SELECT to the pool; a body that does not rebuild, or that
\* throws before, goes on to the finally block
ScopeBody ==
    /\ pool.pc = "body"
    /\ pool' = IF ScopeReadsAll(pool, db, flavor)
               THEN [pool EXCEPT !.pc = "getAll", !.query = "queued"]
               ELSE [pool EXCEPT !.pc = "finally"]
    /\ UNCHANGED storeVars
    /\ StoreAndPoolOnly

\* the pool runs the queued SELECT on a connection nobody holds
PoolRunsQuery ==
    /\ pool.query = "queued"
    /\ FreeConnections(pool) > 0
    /\ pool' = [pool EXCEPT !.query = "running"]
    /\ UNCHANGED storeVars
    /\ StoreAndPoolOnly

\* getAll() returns; the rest of the body runs on the connection of the
\* scope
GetAllReturns ==
    /\ pool.query = "running"
    /\ pool' = [pool EXCEPT !.query = "none", !.pc = "finally"]
    /\ UNCHANGED storeVars
    /\ StoreAndPoolOnly

\* finally { connection.release(); } ; sync goes on to its second scope
\* when migrateContentsColumn returned and filterSortFields is defined
ConnectionRelease ==
    /\ pool.pc = "finally"
    /\ \E r \in {ScopeResult(pool, db, flavor)} :
          /\ db' = r.d
          /\ pool' = IF pool.scope = "migrate" /\ r.ok /\ pool.def.fsfDefined
                     THEN [pool EXCEPT !.held = 0, !.pc = "acquire",
                                       !.scope = "sync"]
                     ELSE [pool EXCEPT !.held = 0, !.pc = "done"]
    /\ UNCHANGED <<engine, flavor, registered, def, migDone, lastOp>>
    /\ StoreAndPoolOnly

\* a request of another repository has its query run on a connection of
\* the pool
OtherQueryRuns ==
    /\ FreeConnections(pool) > 0
    /\ pool' = [pool EXCEPT !.others = @ + 1]
    /\ UNCHANGED storeVars
    /\ StoreAndPoolOnly

OtherQueryReturns ==
    /\ pool.others > 0
    /\ pool' = [pool EXCEPT !.others = @ - 1]
    /\ UNCHANGED storeVars
    /\ StoreAndPoolOnly

PoolNext ==
    \/ \E e \in Definitions : SyncCalled(e)
    \/ GetConnectionFromPool
    \/ ScopeBody
    \/ PoolRunsQuery
    \/ GetAllReturns
    \/ ConnectionRelease
    \/ OtherQueryRuns
    \/ OtherQueryReturns

SpecPool == PoolInit /\ [][PoolNext]_vars

\* C37: sync never needs a second connection of the pool: while it holds
\* the connection of a scope, no query of its own is queued on the pool or
\* runs on another connection of the pool.
C37_OneConnectionSuffices == pool.held = 1 => pool.query = "none"

-----------------------------------------------------------------------------
(* getWhere() between builder calls.  The query receives builder calls    *)
(* and getWhere() calls; its twin receives the same builder calls only.    *)

\* the largest number of builder calls a query receives
MaxBuilderCalls == 3

NewTwin == [where |-> <<>>, group |-> NoGroup, calls |-> 0]

GetWhereInit ==
    /\ engine \in {"sqlite", "mysql"}
    /\ StoreIdle
    /\ MigIdle
    /\ HttpIdle
    /\ RegIdle
    /\ HookIdle
    /\ RelIdle
    /\ PageIdle
    /\ PatchIdle
    /\ RebuildIdle
    /\ PoolIdle
    /\ qFsf \in QueryFsfChoices
    /\ qWhere = <<>>
    /\ qGroup = NoGroup
    /\ qSort = <<>>
    /\ qLast = NoCall
    /\ qTwin = NewTwin

\* query.eq(field, value) and the other predicates, on the query and its twin
BuildFilter(f) ==
    /\ qTwin.calls < MaxBuilderCalls
    /\ LET r == addFilter(qWhere, qGroup, f.op, f.field, f.values)
           t == addFilter(qTwin.where, qTwin.group, f.op, f.field, f.values)
       IN  /\ qWhere' = r.where
           /\ qGroup' = r.group
           /\ qTwin' = [where |-> t.where, group |-> t.group,
                        calls |-> qTwin.calls + 1]
           /\ qLast' = [NoCall EXCEPT !.op = "filter", !.field = f.field,
                           !.threw = r.threw,
                           !.changed = (r.where # qWhere \/ r.group # qGroup)]
    /\ UNCHANGED <<qFsf, qSort>>
    /\ QueryAndTwinOnly

\* query.and(), query.or(), query.and(q1, q2), query.or(q1, q2)
BuildLogical(op, wheres) ==
    /\ qTwin.calls < MaxBuilderCalls
    /\ \A i \in DOMAIN wheres : \A j \in DOMAIN wheres[i] :
          FieldDefined(qFsf, wheres[i][j].field)
    /\ LET r == logical(qWhere, qGroup, op, wheres)
           t == logical(qTwin.where, qTwin.group, op, wheres)
       IN  /\ qWhere' = r.where
           /\ qGroup' = r.group
           /\ qTwin' = [where |-> t.where, group |-> t.group,
                        calls |-> qTwin.calls + 1]
    /\ qLast' = [NoCall EXCEPT !.op = "logical", !.changed = TRUE]
    /\ UNCHANGED <<qFsf, qSort>>
    /\ QueryAndTwinOnly

\* query.not()
BuildNot ==
    /\ qTwin.calls < MaxBuilderCalls
    /\ qWhere' = finalizeGroup(qWhere, qGroup).where
    /\ qGroup' = OpenGroup("NOT")
    /\ qTwin' = [where |-> finalizeGroup(qTwin.where, qTwin.group).where,
                 group |-> OpenGroup("NOT"), calls |-> qTwin.calls + 1]
    /\ qLast' = [NoCall EXCEPT !.op = "not", !.changed = TRUE]
    /\ UNCHANGED <<qFsf, qSort>>
    /\ QueryAndTwinOnly

\* query.getWhere() on the query; the twin is not called
GetWhere ==
    /\ LET f == finalizeGroup(qWhere, qGroup)
       IN  /\ qWhere' = f.where
           /\ qGroup' = f.group
           /\ qLast' = [NoCall EXCEPT !.op = "getWhere",
                           !.changed = (f.where # qWhere \/ f.group # qGroup)]
    /\ UNCHANGED <<qFsf, qSort, qTwin>>
    /\ QueryAndTwinOnly

GetWhereNext ==
    \/ \E f \in FilterInputs : BuildFilter(f)
    \/ \E op \in {"AND", "OR"}, wheres \in SubQueries \cup {<<>>} :
          BuildLogical(op, wheres)
    \/ BuildNot
    \/ GetWhere

SpecGetWhere == GetWhereInit /\ [][GetWhereNext]_vars

\* C39: the list a getWhere() call returns is the list getWhere() returns
\* from the query that received the same builder calls and no getWhere()
\* call before, and a getWhere() call right after a getWhere() call
\* returns the same list.
C39_GetWhereChangesNothing ==
    /\ []((qLast.op = "getWhere") =>
            qWhere = finalizeGroup(qTwin.where, qTwin.group).where)
    /\ [][(qLast.op = "getWhere" /\ qLast'.op = "getWhere") =>
            qWhere' = qWhere]_vars

====
